---- MODULE Spec2Model ----
(***************************************************************************)
(* Per-thread propagation engine of the CSP propagator                     *)
(* (examples/clingo/csp/csp/__init__.py) together with the part of the     *)
(* host solver that the engine talks to through the propagator interface.  *)
(*                                                                         *)
(* The engine object (class State) is the record `state`; the host solver  *)
(* (assignment, trail, clause store, watches) is the record `host`.        *)
(* Every method is an operator on a "world" record                         *)
(*     [s |-> State, h |-> host, ok |-> return value, lit |-> returned     *)
(*      literal, err |-> name of the first failed assertion]               *)
(* and every callback of the Propagator facade is one action.              *)
(***************************************************************************)
EXTENDS Integers, Sequences, FiniteSets, TLC

VARIABLES state, host, ret, last, err, prog, step, propagator, threads, norm, term

vars == <<state, host, ret, last, err, prog, step, propagator, threads, norm, term>>

\* The engine, the host solver, the position in the program, the fields of
\* the Propagator facade and the states and solvers of the threads but the
\* first.
main == <<state, host, ret, last, err, prog, step, propagator, threads>>

\* What lives beside the engine: norm is a theory atom on its way through
\* parsing._normalize_constraint, term is an element of a sum constraint on
\* its way through the loop of ConstraintState.propagate.
aux == <<norm, term>>

(***************************************************************************)
(* Program constants.  MIN_INT / MAX_INT are module globals bounding every *)
(* variable's domain; the domain is scaled down to                         *)
(* [-DomainBound, DomainBound], and the literal budget of translate (1000  *)
(* in the program) is scaled with it; the programs that need chains of     *)
(* three order literals of one variable run with [-WideBound, WideBound].  *)
(***************************************************************************)
\* Largest absolute value of an integer variable.
DomainBound == 1

\* Largest absolute value of an integer variable in the programs with wide
\* domains.
WideBound == 2

\* Literal budget below which translate rewrites a sum constraint.
TranslateBudget == 4

\* Bound on the decision level the host opens.
MaxLevel == 6

\* Number of variables the host can hand out.
MaxHostVar == 16

TRUE_LIT == 1

TRANSLATE_LIMIT == TranslateBudget

\* Names the value v for the steps F that follow it.
Bind(v, F(_)) == F(v)

\* A step that returned False ends the operation; otherwise F continues.
Then(W, F(_)) == IF ~ W.ok THEN W ELSE F(W)

\* A failed assertion ends the operation; otherwise F continues.
Sure(W, F(_)) == IF W.err # "" THEN W ELSE F(W)

Abs(n) == IF n < 0 THEN 0 - n ELSE n

Max2(a, b) == IF a > b THEN a ELSE b

Min2(a, b) == IF a < b THEN a ELSE b

\* Python's floor division a // b for b > 0.
FloorDiv(a, b) == a \div b

Last(sq) == sq[Len(sq)]

Front(sq) == SubSeq(sq, 1, Len(sq) - 1)

InSeq(sq, x) == \E i \in 1..Len(sq) : sq[i] = x

\* list.remove(x): drops the first occurrence.
RemoveFirst(sq, x) ==
    LET i == CHOOSE k \in 1..Len(sq) : sq[k] = x /\ \A m \in 1..(k-1) : sq[m] # x
    IN  SubSeq(sq, 1, i - 1) \o SubSeq(sq, i + 1, Len(sq))

\* TodoList.add: an insertion-ordered set.
TodoAdd(sq, x) == IF InSeq(sq, x) THEN sq ELSE Append(sq, x)

RECURSIVE TodoExtend(_, _)
TodoExtend(sq, xs) ==
    IF xs = <<>> THEN sq ELSE TodoExtend(TodoAdd(sq, Head(xs)), Tail(xs))

(***************************************************************************)
(* The constraints a program can hold.  The elements of a sum constraint   *)
(* are <<coefficient, var>>, those of a distinct constraint are            *)
(* <<constant, terms>>; a distinct constraint here has more than two       *)
(* elements, so that it reaches the propagator.                            *)
(***************************************************************************)
Vars == {"x", "y"}

\* Host variables of the theory atoms (1 is the true literal): one is
\* numbered before and one after the variables the solver hands out later.
AtomA == TRUE_LIT + 1

AtomB == MaxHostVar

Sum(lit, elements, rhs, strict) ==
    [kind |-> "sum", literal |-> lit, elements |-> elements, rhs |-> rhs, strict |-> strict]

Distinct(lit, elements) ==
    [kind |-> "distinct", literal |-> lit, elements |-> elements]

\* Minimize.__init__ with the terms and the adjustment the parser leaves in
\* it: the objective is the sum of the elements minus adjust.
Minimize(elements, adjust) ==
    [kind |-> "minimize", literal |-> TRUE_LIT, elements |-> elements, adjust |-> adjust]

BaseCons ==
    <<  Sum(AtomA, << <<1, "x">>, <<1, "y">> >>, 0, FALSE),
        Sum(AtomB, << <<-1, "x">>, <<-1, "y">> >>, -1, FALSE),
        Sum(TRUE_LIT, << <<1, "x">>, <<-1, "y">> >>, 0, FALSE),
        Sum(AtomA, << <<2, "x">>, <<-1, "y">> >>, -1, FALSE),
        Sum(TRUE_LIT, << <<1, "x">> >>, 0, FALSE),
        Sum(AtomB, << <<-1, "y">> >>, 0, TRUE),
        Distinct(AtomA, << <<0, << <<1, "x">> >> >>, <<0, << <<1, "y">> >> >>, <<0, <<>> >> >>),
        Sum(TRUE_LIT, << <<-1, "x">> >>, 0, FALSE),
        Sum(TRUE_LIT, << <<1, "y">> >>, 0, FALSE),
        Sum(TRUE_LIT, << <<-1, "y">> >>, 0, FALSE),
        Sum(TRUE_LIT, << <<1, "x">> >>, 1, FALSE),
        Distinct(AtomB, << <<0, << <<1, "x">> >> >>, <<0, << <<1, "y">> >> >>, <<0, <<>> >> >>)
    >>

\* The sum constraints co1*x + co2*y <= rhs used to exercise translate, with
\* a fact or an atom as activation literal.
Coeffs == <<-2, -1, 1, 2>>

TransRhs == <<-2, -1, 0, 1, 2>>

TransLits == <<TRUE_LIT, AtomA>>

NumTransCons == Len(Coeffs) * Len(Coeffs) * Len(TransRhs) * Len(TransLits)

TransCon(n) ==
    Sum(TransLits[(n \div (Len(Coeffs) * Len(Coeffs) * Len(TransRhs))) + 1],
        << <<Coeffs[(n % Len(Coeffs)) + 1], "x">>,
           <<Coeffs[((n \div Len(Coeffs)) % Len(Coeffs)) + 1], "y">> >>,
        TransRhs[((n \div (Len(Coeffs) * Len(Coeffs))) % Len(TransRhs)) + 1],
        FALSE)

\* The objectives x + y (adjusted by one) and x - y.
MinimizeCons ==
    <<  Minimize(<< <<1, "x">>, <<1, "y">> >>, 1),
        Minimize(<< <<1, "x">>, <<-1, "y">> >>, 0)
    >>

\* The singleton constraints co*x <= rhs, strict or not, with a fact or an
\* atom as activation literal.
SimpleRhs == <<-2, -1, 0, 1>>

SimpleLits == <<TRUE_LIT, AtomA, AtomB>>

NumSimpleCons == Len(Coeffs) * Len(SimpleRhs) * 2 * Len(SimpleLits)

SimpleCon(n) ==
    Sum(SimpleLits[(n \div (Len(Coeffs) * Len(SimpleRhs) * 2)) + 1],
        << <<Coeffs[(n % Len(Coeffs)) + 1], "x">> >>,
        SimpleRhs[((n \div Len(Coeffs)) % Len(SimpleRhs)) + 1],
        ((n \div (Len(Coeffs) * Len(SimpleRhs))) % 2) = 1)

Cons ==
    BaseCons \o [n \in 1..NumTransCons |-> TransCon(n - 1)] \o MinimizeCons
             \o [n \in 1..NumSimpleCons |-> SimpleCon(n - 1)]

\* The numbers of the singleton constraints.
SimpleIds == (Len(Cons) - NumSimpleCons + 1)..Len(Cons)

\* The number of the n-th objective.
MinimizeCon(n) == Len(BaseCons) + NumTransCons + n

CIds == 1..Len(Cons)

\* Each program is a sequence of solving steps; a step lists the
\* constraints its theory atoms add.
MainPrograms ==
    <<  << <<1, 2>> >>,
        << <<3, 4>> >>,
        << <<1, 6>>, <<5>> >>,
        << <<7, 8>>, <<5>> >>,
        << <<5, 9>>, <<11, 3>> >>,
        << <<12>> >>
    >>

\* The facts that bound x and y from either side.
BoundFacts == <<5, 8, 9, 10>>

RECURSIVE FactsOf(_, _)
\* The facts selected by the bits of m.
FactsOf(m, facts) ==
    IF facts = <<>> THEN <<>>
    ELSE (IF m % 2 = 1 THEN <<Head(facts)>> ELSE <<>>) \o FactsOf(m \div 2, Tail(facts))

\* A one-step program: some bound facts and one sum constraint.
TransProgram(m) ==
    << FactsOf(m \div NumTransCons, BoundFacts)
       \o <<Len(BaseCons) + (m % NumTransCons) + 1>> >>

NumTransPrograms == NumTransCons * 16

\* Programs with a minimize statement; its terms are all stated in the
\* first step.
MinimizePrograms ==
    <<  << <<MinimizeCon(1), 5>> >>,
        << <<MinimizeCon(1), 5>>, <<8>> >>,
        << <<MinimizeCon(2), 5>> >>,
        << <<MinimizeCon(1), 9>>, <<5>> >>
    >>

\* Programs that are solved with NumThreads threads.
NumThreads == 2

ThreadPrograms ==
    <<  << <<1, 6>>, <<5>> >>,
        << <<7, 8>>, <<5>> >>,
        << <<3, 4>>, <<5>> >>
    >>

\* The number of the singleton constraint SimpleCon(n).
SimpleId(n) == Len(Cons) - NumSimpleCons + 1 + n

\* The number of the sum constraint TransCon(n).
TransConId(n) == Len(BaseCons) + 1 + n

\* Programs whose first step is translated and gives x two order literals
\* (&sum{x + 2y} <= -2 and &sum{-x - 2y} <= -2 under an atom), and whose
\* second step states a bound of x (x <= -1, x >= 1) as a fact or under an
\* atom.
FactPrograms ==
    <<  << <<TransConId(94)>>, <<SimpleId(6)>> >>,
        << <<TransConId(81)>>, <<SimpleId(5)>> >>,
        << <<TransConId(94)>>, <<SimpleId(38)>> >>,
        << <<TransConId(81)>>, <<SimpleId(37)>> >>
    >>

\* Programs with an objective and a sum constraint that Propagator.init
\* translates in the first or in the second step, solved with NumThreads
\* threads.
OrderPrograms ==
    <<  << <<MinimizeCon(1), TransConId(94)>>, <<SimpleId(6)>> >>,
        << <<MinimizeCon(1), 1>>, <<5>> >>,
        << <<MinimizeCon(2), TransConId(81)>>, <<5>> >>
    >>

\* A program with a distinct constraint whose second step states nothing
\* new, solved with NumThreads threads.
CopyPrograms ==
    <<  << <<7>>, <<>> >>
    >>

\* Programs in which an atom is the order literal of x <= -1 (the atom
\* holds iff x <= -1) and, in two of them, its negation the order literal
\* of x <= 0 (the atom holds iff x >= 1), followed by a fact x <= 0 or
\* x <= -1.
AliasPrograms ==
    <<  << <<SimpleId(54), SimpleId(53), 5>> >>,
        << <<SimpleId(54)>>, <<SimpleId(6)>> >>,
        << <<SimpleId(54), SimpleId(53)>>, <<5>> >>
    >>

\* Programs over x alone, solved with the wide domain.
WidePrograms ==
    <<  << <<11>> >>,
        << <<11>>, <<5>> >>
    >>

Programs ==
    MainPrograms \o [m \in 1..NumTransPrograms |-> TransProgram(m - 1)] \o MinimizePrograms
    \o ThreadPrograms \o OrderPrograms \o CopyPrograms \o FactPrograms \o AliasPrograms \o WidePrograms

FirstMinimizeProgram == Len(MainPrograms) + NumTransPrograms + 1

FirstThreadProgram == FirstMinimizeProgram + Len(MinimizePrograms)

FirstOrderProgram == FirstThreadProgram + Len(ThreadPrograms)

FirstCopyProgram == FirstOrderProgram + Len(OrderPrograms)

FirstFactProgram == FirstCopyProgram + Len(CopyPrograms)

FirstAliasProgram == FirstFactProgram + Len(FactPrograms)

FirstWideProgram == FirstAliasProgram + Len(AliasPrograms)

\* PropagateInit.number_of_threads
number_of_threads(p) ==
    IF p >= FirstThreadProgram /\ p < FirstFactProgram THEN NumThreads ELSE 1

MAX_INT == IF prog >= FirstWideProgram THEN WideBound ELSE DomainBound

MIN_INT == 0 - MAX_INT

\* The solver closes every solve call by fixing the step literal of the
\* call, which lengthens the trail that simplify inspects; StepVar(k) is the
\* host variable of the k-th call.
StepVar(k) == AtomA + k

StepVars == {StepVar(k) : k \in 1..2}

HostVars == 1..MaxHostVar

Lits == {l \in (0 - MaxHostVar)..MaxHostVar : l # 0}

(***************************************************************************)
(* Host: assignment, trail, clauses, weight constraints, watches.          *)
(***************************************************************************)
LitVal(h, l) == IF l > 0 THEN h.val[l] ELSE 0 - h.val[0 - l]

is_true(h, l) == LitVal(h, l) = 1

is_false(h, l) == LitVal(h, l) = -1

is_fixed(h, l) == h.val[Abs(l)] # 0 /\ h.lvl[Abs(l)] = 0

\* Assignment.value: 1 for True, -1 for False, 0 for None.
value(h, l) == LitVal(h, l)

ass_has_literal(h, l) == Abs(l) \in h.used

is_total(h) == \A v \in h.used : h.val[v] # 0

\* An assignment of the solver; a watched literal is queued for the
\* propagate callback.
HostAssign(h, l) ==
    [h EXCEPT !.val[Abs(l)] = IF l > 0 THEN 1 ELSE -1,
              !.lvl[Abs(l)] = h.dl,
              !.trail = Append(@, l),
              !.queue = IF l \in h.watches THEN Append(@, l) ELSE @]

RECURSIVE WSum(_, _, _)
\* Sum of the weights of the literals of wlits whose value is in vals.
WSum(h, wlits, vals) ==
    IF wlits = <<>> THEN 0
    ELSE (IF LitVal(h, Head(wlits)[1]) \in vals THEN Head(wlits)[2] ELSE 0)
         + WSum(h, Tail(wlits), vals)

\* Literals a weight constraint  lit <=> (sum of true weights >= bound)  implies.
WcImplied(h, wc) ==
    LET st == WSum(h, wc.wlits, {1})
        sp == WSum(h, wc.wlits, {0, 1})
    IN  (IF st >= wc.bound THEN {wc.lit} ELSE {})
        \cup (IF sp < wc.bound THEN {0 - wc.lit} ELSE {})
        \cup (IF is_true(h, wc.lit)
              THEN {wc.wlits[i][1] : i \in {k \in 1..Len(wc.wlits) :
                        LitVal(h, wc.wlits[k][1]) = 0 /\ sp - wc.wlits[k][2] < wc.bound}}
              ELSE {})
        \cup (IF is_false(h, wc.lit)
              THEN {0 - wc.wlits[i][1] : i \in {k \in 1..Len(wc.wlits) :
                        LitVal(h, wc.wlits[k][1]) = 0 /\ st + wc.wlits[k][2] >= wc.bound}}
              ELSE {})

Implied(h) ==
    UNION {{l \in c : \A k \in c \ {l} : is_false(h, k)} : c \in h.clauses}
    \cup UNION {WcImplied(h, wc) : wc \in h.wcs}

\* The smallest variable first, its positive literal before its negative one.
MinLit(S) ==
    CHOOSE l \in S : \A k \in S : Abs(l) < Abs(k) \/ (Abs(l) = Abs(k) /\ l >= k)

RECURSIVE UnitPropagate(_)
\* Unit propagation of the host to fixpoint; sets conflict when a clause or
\* weight constraint is violated.
UnitPropagate(h) ==
    IF h.conflict THEN h
    ELSE Bind(Implied(h), LAMBDA imp :
           IF {} \in h.clauses \/ \E l \in imp : is_false(h, l)
           THEN [h EXCEPT !.conflict = TRUE]
           ELSE Bind({l \in imp : LitVal(h, l) = 0}, LAMBDA new :
                  IF new = {} THEN h ELSE UnitPropagate(HostAssign(h, MinLit(new)))))

\* Clauses satisfied on level 0 stay satisfied and are dropped from the store.
Simplified(h) ==
    [h EXCEPT !.clauses = {c \in @ : ~ \E l \in c : is_true(h, l) /\ is_fixed(h, l)}]

\* solver.propagate
solver_propagate(W) ==
    Bind(UnitPropagate(W.h), LAMBDA h2 :
      [W EXCEPT !.h = Simplified(h2), !.ok = ~ h2.conflict])

\* propagate of the clause creator in use (CSPBuilder only pretends to).
cc_propagate(W) ==
    IF W.h.mode = "builder" THEN [W EXCEPT !.ok = TRUE] ELSE solver_propagate(W)

\* solver.add_clause(clause) and propagate()
solver_add_clause(W, clause) ==
    LET c  == {clause[i] : i \in 1..Len(clause)}
        h1 == [W.h EXCEPT !.added = Append(@, [clause |-> clause,
                                               falsified |-> \A l \in c : is_false(W.h, l)])]
    IN  IF \E l \in c : (0 - l) \in c \/ (is_true(h1, l) /\ is_fixed(h1, l))
        THEN [W EXCEPT !.h = h1, !.ok = TRUE]
        ELSE solver_propagate([W EXCEPT !.h = [h1 EXCEPT !.clauses = @ \cup {c}]])

\* add_clause of the clause creator in use: CSPBuilder queues the clause
\* for finalize, the other two hand it to the solver and propagate.
add_clause(W, clause) ==
    IF W.h.mode = "builder"
    THEN [W EXCEPT !.h.pending = Append(@, clause), !.ok = TRUE]
    ELSE solver_add_clause(W, clause)

\* ClauseCreator.add_literal: a fresh host variable (local to the solving
\* step when it is added through the control object).
add_literal(W) ==
    LET free == HostVars \ (W.h.used \cup StepVars)
    IN  IF free = {} THEN [W EXCEPT !.err = "host_literals_exhausted", !.ok = FALSE]
        ELSE LET v == CHOOSE a \in free : \A b \in free : a <= b
             IN  [W EXCEPT !.h.used = @ \cup {v},
                           !.h.local = IF W.h.mode = "control" THEN @ \cup {v} ELSE @,
                           !.lit = v]

\* Mutation: a negative literal is not watched.
add_watch_mutant(W, l) ==
    IF l < 0 THEN W
    ELSE [W EXCEPT !.h.watches = @ \cup {l},
                   !.h.fresh = IF W.h.mode = "control" THEN @ ELSE @ \cup {l}]

\* ClauseCreator.add_watch
add_watch(W, l) ==
    [W EXCEPT !.h.watches = @ \cup {l},
              !.h.fresh = IF W.h.mode = "control" THEN @ ELSE @ \cup {l}]

\* Mutation: the bound is handed to the host as it is.
add_weight_constraint_mutant(W, l, wlits, bound) ==
    solver_propagate([W EXCEPT !.h.wcs = @ \cup {[lit |-> 0 - l, wlits |-> wlits, bound |-> bound]}])

\* InitClauseCreator.add_weight_constraint: lit == (wlits <= bound), handed
\* to the host as  -lit <=> (wlits >= bound+1).
add_weight_constraint(W, l, wlits, bound) ==
    solver_propagate([W EXCEPT !.h.wcs = @ \cup {[lit |-> 0 - l, wlits |-> wlits, bound |-> bound + 1]}])

Fail(W, what) == [W EXCEPT !.err = IF @ = "" THEN what ELSE @, !.ok = FALSE]

\* add_clause(clause, tag): a tagged clause applies only in the current
\* solving step, so the solver stores it together with the negation of the
\* step literal it assumes; only the control object takes one.
add_clause_tag(W, clause, tag) ==
    IF ~ tag THEN add_clause(W, clause)
    ELSE IF W.h.mode # "control" THEN Fail(W, "add_clause:tag")
    ELSE LET c  == {clause[i] : i \in 1..Len(clause)}
                   \cup (IF W.h.assume = 0 THEN {} ELSE {0 - W.h.assume})
             h1 == [W.h EXCEPT !.added = Append(@, [clause |-> clause,
                                                    falsified |-> \A l \in c : is_false(W.h, l)])]
         IN  IF \E l \in c : (0 - l) \in c \/ (is_true(h1, l) /\ is_fixed(h1, l))
             THEN [W EXCEPT !.h = h1, !.ok = TRUE]
             ELSE solver_propagate([W EXCEPT !.h = [h1 EXCEPT !.clauses = @ \cup {c},
                                                             !.tagged = @ \cup {c}]])

(***************************************************************************)
(* VarState                                                                *)
(***************************************************************************)
lower_bound(s, var) == Last(s.lower[var])

upper_bound(s, var) == Last(s.upper[var])

min_bound(s, var) == s.lower[var][1]

max_bound(s, var) == s.upper[var][1]

is_assigned(s, var) == upper_bound(s, var) = lower_bound(s, var)

\* An empty SortedDict.
NoLiterals == [k \in {} |-> 0]

has_literal(s, var, v) == v \in DOMAIN s.literals[var]

set_literal(s, var, v, l) ==
    [s EXCEPT !.literals[var] = [k \in (DOMAIN @) \cup {v} |-> IF k = v THEN l ELSE @[k]]]

unset_literal(s, var, v) ==
    [s EXCEPT !.literals[var] = [k \in (DOMAIN @) \ {v} |-> @[k]]]

\* The largest value below v with a literal; MIN_INT - 1 stands for None.
None == MIN_INT - 1

prev_value(s, var, v) ==
    LET below == {k \in DOMAIN s.literals[var] : k < v}
    IN  IF below = {} THEN None ELSE CHOOSE k \in below : \A m \in below : m <= k

succ_value(s, var, v) ==
    LET above == {k \in DOMAIN s.literals[var] : k > v}
    IN  IF above = {} THEN None ELSE CHOOSE k \in above : \A m \in above : m >= k

(***************************************************************************)
(* State: order literals                                                   *)
(***************************************************************************)
litmap_append(s, l, var, v) == [s EXCEPT !.litmap[l] = Append(@, <<var, v>>)]

get_literal(W, var, v) ==
    IF v < min_bound(W.s, var) THEN [W EXCEPT !.lit = 0 - TRUE_LIT]
    ELSE IF v >= max_bound(W.s, var) THEN [W EXCEPT !.lit = TRUE_LIT]
    ELSE IF ~ has_literal(W.s, var, v)
         THEN Sure(add_literal(W), LAMBDA W1 :
                Bind(IF v >= 0 THEN 0 - W1.lit ELSE W1.lit, LAMBDA l :
                  add_watch(add_watch(
                    [W1 EXCEPT !.s = litmap_append(set_literal(W1.s, var, v, l), l, var, v),
                               !.lit = l], l), 0 - l)))
         ELSE [W EXCEPT !.lit = W.s.literals[var][v]]

remove_literal(W, var, l, v) ==
    IF l \in {TRUE_LIT, 0 - TRUE_LIT} THEN Fail(W, "remove_literal:constant")
    ELSE IF ~ InSeq(W.s.litmap[l], <<var, v>>) THEN Fail(W, "remove_literal:missing")
    ELSE LET vec == RemoveFirst(W.s.litmap[l], <<var, v>>)
         IN  IF vec = <<>> /\ W.s.litmap[0 - l] # <<>>
             THEN Fail([W EXCEPT !.s.litmap[l] = vec], "remove_literal:negation_in_litmap")
             ELSE [W EXCEPT !.s.litmap[l] = vec]

\* Mutation: the literal is never replaced by a constant.
update_literal_mutant(W, var, v, truth) ==
    [get_literal(W, var, v) EXCEPT !.ok = TRUE]

\* truth: 1 for True, -1 for False, 0 for None.
update_literal(W, var, v, truth) ==
    IF truth = 0 \/ W.h.dl > 0 THEN [get_literal(W, var, v) EXCEPT !.ok = TRUE]
    ELSE LET l == IF truth = 1 THEN TRUE_LIT ELSE 0 - TRUE_LIT
         IN  IF v < min_bound(W.s, var) \/ v >= max_bound(W.s, var)
             THEN Bind(get_literal(W, var, v).lit, LAMBDA old :
                    IF old = l THEN [W EXCEPT !.ok = TRUE, !.lit = l]
                    ELSE [add_clause(W, <<IF truth = 1 THEN old ELSE 0 - old>>)
                             EXCEPT !.lit = l])
             ELSE IF ~ has_literal(W.s, var, v)
             THEN [W EXCEPT !.s = litmap_append(set_literal(W.s, var, v, l), l, var, v),
                            !.ok = TRUE, !.lit = l]
             ELSE LET old == W.s.literals[var][v]
                  IN  IF old = l THEN [W EXCEPT !.ok = TRUE, !.lit = l]
                      ELSE Sure(IF old # 0 - l
                                THEN Bind(remove_literal(
                                            [W EXCEPT !.s = set_literal(W.s, var, v, l)],
                                            var, old, v),
                                          LAMBDA Wr : [Wr EXCEPT !.s = litmap_append(Wr.s, l, var, v)])
                                ELSE W,
                                LAMBDA W1 :
                                  [add_clause(W1, <<IF truth = 1 THEN old ELSE 0 - old>>)
                                      EXCEPT !.lit = l])


\* _propagate_variable without the simplification under a fixed reason.
propagate_variable_mutant(W, var, v, lit, sign) ==
    IF ~ is_true(W.h, lit) THEN Fail(W, "propagate_variable:lit_not_true")
    ELSE IF ~ has_literal(W.s, var, v) THEN Fail(W, "propagate_variable:no_literal")
    ELSE LET con0 == sign * W.s.literals[var][v]
         IN  IF ~ is_true(W.h, con0) THEN add_clause(W, <<0 - lit, con0>>)
             ELSE [W EXCEPT !.ok = TRUE, !.lit = con0]

\* State._propagate_variable: the literal of (var, v), with the given sign,
\* follows from lit.
propagate_variable(W, var, v, lit, sign) ==
    IF ~ is_true(W.h, lit) THEN Fail(W, "propagate_variable:lit_not_true")
    ELSE IF ~ has_literal(W.s, var, v) THEN Fail(W, "propagate_variable:no_literal")
    ELSE LET con0 == sign * W.s.literals[var][v]
         IN  Then(IF is_fixed(W.h, lit) /\ ~ is_fixed(W.h, con0)
                  THEN Bind(update_literal(W, var, v, IF sign > 0 THEN 1 ELSE -1),
                            LAMBDA Wu : [Wu EXCEPT !.lit = sign * Wu.lit])
                  ELSE [W EXCEPT !.ok = TRUE, !.lit = con0],
                  LAMBDA W1 :
                    IF ~ is_true(W1.h, W1.lit) THEN add_clause(W1, <<0 - lit, W1.lit>>)
                    ELSE W1)

\* OrderedDict: setdefault(var, 0) followed by += diff.
DictAdd(d, var, diff) ==
    IF \E i \in 1..Len(d) : d[i][1] = var
    THEN [i \in 1..Len(d) |-> IF d[i][1] = var THEN <<var, d[i][2] + diff>> ELSE d[i]]
    ELSE Append(d, <<var, diff>>)

DictGet(d, var) ==
    IF \E i \in 1..Len(d) : d[i][1] = var
    THEN d[CHOOSE i \in 1..Len(d) : d[i][1] = var][2]
    ELSE 0

Top(s) == Len(s.levels)

level(s) == s.levels[Top(s)]

\* The bound update of _update_domain for an order literal that became true.
\* Mutation: the change of the bound is not recorded for check and undo.
set_upper_mutant(s, var, v) ==
    LET new == ~ InSeq(level(s).undo_upper, var)
        st  == IF new THEN Append(s.upper[var], upper_bound(s, var)) ELSE s.upper[var]
    IN  [s EXCEPT !.levels[Top(s)].undo_upper = TodoAdd(@, var),
                  !.upper[var] = [st EXCEPT ![Len(st)] = v]]

set_upper(s, var, v) ==
    LET diff == v - upper_bound(s, var)
        new  == ~ InSeq(level(s).undo_upper, var)
        st   == IF new THEN Append(s.upper[var], upper_bound(s, var)) ELSE s.upper[var]
    IN  [s EXCEPT !.levels[Top(s)].undo_upper = TodoAdd(@, var),
                  !.upper[var] = [st EXCEPT ![Len(st)] = v],
                  !.udiff = DictAdd(@, var, diff)]

\* Mutation: the lower bound passes the value that the literal excludes by
\* two.
set_lower_mutant(s, var, v) ==
    LET new == ~ InSeq(level(s).undo_lower, var)
        st  == IF new THEN Append(s.lower[var], lower_bound(s, var)) ELSE s.lower[var]
    IN  [s EXCEPT !.levels[Top(s)].undo_lower = TodoAdd(@, var),
                  !.lower[var] = [st EXCEPT ![Len(st)] = v + 1],
                  !.ldiff = DictAdd(@, var, v + 1 - lower_bound(s, var))]

\* The bound update of _update_domain for an order literal that became
\* false.
set_lower(s, var, v) ==
    LET diff == v - lower_bound(s, var)
        new  == ~ InSeq(level(s).undo_lower, var)
        st   == IF new THEN Append(s.lower[var], lower_bound(s, var)) ELSE s.lower[var]
    IN  [s EXCEPT !.levels[Top(s)].undo_lower = TodoAdd(@, var),
                  !.lower[var] = [st EXCEPT ![Len(st)] = v],
                  !.ldiff = DictAdd(@, var, diff)]

\* Mutation: the upper bound is overwritten without comparing it first.
tighten_upper_mutant(s, var, v) == set_upper(s, var, v)

\* _update_domain: the upper bound only changes to a smaller value.
tighten_upper(s, var, v) ==
    IF upper_bound(s, var) > v THEN set_upper(s, var, v) ELSE s

\* Mutation: the lower bound of a false literal v <= k becomes k, not k+1.
tighten_lower_mutant(s, var, v) ==
    IF lower_bound(s, var) < v - 1 THEN set_lower(s, var, v - 1) ELSE s

\* _update_domain: the lower bound only changes to a larger value.
tighten_lower(s, var, v) ==
    IF lower_bound(s, var) < v THEN set_lower(s, var, v) ELSE s

RECURSIVE update_upper(_, _, _)
\* Mutation: the literal of the next larger value is propagated only if the
\* upper bound changes.
update_upper_mutant(W, lit, pairs) ==
    IF pairs = <<>> THEN [W EXCEPT !.ok = TRUE]
    ELSE LET var == Head(pairs)[1]
             v   == Head(pairs)[2]
         IN  Bind([W EXCEPT !.s = tighten_upper(W.s, var, v)], LAMBDA W1 :
               IF ~ has_literal(W1.s, var, v) THEN Fail(W1, "succ_value:no_literal")
               ELSE Bind(succ_value(W1.s, var, v), LAMBDA succ :
                      Then(IF succ # None /\ upper_bound(W.s, var) > v
                           THEN propagate_variable(W1, var, succ, lit, 1)
                           ELSE [W1 EXCEPT !.ok = TRUE],
                           LAMBDA W2 : update_upper(W2, lit, Tail(pairs)))))

\* Loop of _update_domain over the pairs stored under lit.
update_upper(W, lit, pairs) ==
    IF pairs = <<>> THEN [W EXCEPT !.ok = TRUE]
    ELSE LET var == Head(pairs)[1]
             v   == Head(pairs)[2]
         IN  Bind([W EXCEPT !.s = tighten_upper(W.s, var, v)], LAMBDA W1 :
               IF ~ has_literal(W1.s, var, v) THEN Fail(W1, "succ_value:no_literal")
               ELSE Bind(succ_value(W1.s, var, v), LAMBDA succ :
                      Then(IF succ # None
                           THEN propagate_variable(W1, var, succ, lit, 1)
                           ELSE [W1 EXCEPT !.ok = TRUE],
                           LAMBDA W2 : update_upper(W2, lit, Tail(pairs)))))

RECURSIVE update_lower(_, _, _)
\* Loop of _update_domain over the pairs stored under -lit.
update_lower(W, lit, pairs) ==
    IF pairs = <<>> THEN [W EXCEPT !.ok = TRUE]
    ELSE LET var == Head(pairs)[1]
             v   == Head(pairs)[2]
         IN  Bind([W EXCEPT !.s = tighten_lower(W.s, var, v + 1)], LAMBDA W1 :
               IF ~ has_literal(W1.s, var, v) THEN Fail(W1, "prev_value:no_literal")
               ELSE Bind(prev_value(W1.s, var, v), LAMBDA prev :
                      Then(IF prev # None
                           THEN propagate_variable(W1, var, prev, lit, -1)
                           ELSE [W1 EXCEPT !.ok = TRUE],
                           LAMBDA W2 : update_lower(W2, lit, Tail(pairs)))))

\* list[start:] with a Python index.
Slice(sq, start) == SubSeq(sq, start + 1, Len(sq))

_update_domain(W, lit) ==
    IF ~ is_true(W.h, lit) THEN Fail(W, "update_domain:lit_not_true")
    ELSE Then(IF W.s.litmap[lit] # <<>>
              THEN update_upper(W, lit, Slice(W.s.litmap[lit],
                       IF lit = TRUE_LIT THEN W.s.facts_integrated[1] ELSE 0))
              ELSE [W EXCEPT !.ok = TRUE],
              LAMBDA W1 :
                IF W1.s.litmap[0 - lit] # <<>>
                THEN update_lower(W1, lit, Slice(W1.s.litmap[0 - lit],
                         IF lit = TRUE_LIT THEN W1.s.facts_integrated[2] ELSE 0))
                ELSE W1)

(***************************************************************************)
(* Level frames                                                            *)
(***************************************************************************)
Level(lv) ==
    [level |-> lv, inactive |-> <<>>, removed_v2cs |-> <<>>,
     undo_upper |-> <<>>, undo_lower |-> <<>>]

\* Mutation: a frame is pushed for every call of propagate.
_push_level_mutant(s, lv) == [s EXCEPT !.levels = Append(@, Level(lv))]

\* State._push_level
_push_level(s, lv) ==
    IF level(s).level < lv THEN [s EXCEPT !.levels = Append(@, Level(lv))] ELSE s

RECURSIVE propagate_changes(_, _)
propagate_changes(W, changes) ==
    IF changes = <<>> THEN [W EXCEPT !.ok = TRUE]
    ELSE LET lit == Head(changes)
         IN  Then(_update_domain([W EXCEPT !.s.todo = TodoExtend(@, W.s.l2c[lit])], lit),
                  LAMBDA W1 : propagate_changes(W1, Tail(changes)))

\* State.propagate
propagate(W, changes) ==
    propagate_changes([W EXCEPT !.s = _push_level(W.s, W.h.dl)], changes)


(***************************************************************************)
(* ConstraintState (sum constraints)                                       *)
(***************************************************************************)
marked_inactive(cs) == cs.inactive_level > 0

removable(cs, lv) == marked_inactive(cs) /\ cs.inactive_level <= lv

tagged_removable(c) == Cons[c].kind # "minimize"

tagged(c) == Cons[c].kind = "minimize"

\* Constraint.rhs and Minimize.rhs: the bound of the minimize constraint
\* is the minimize_bound of the state, which may be None.
rhs_is_none(s, c) == Cons[c].kind = "minimize" /\ s.minimize_bound = <<>>

rhs_of(s, c) == IF Cons[c].kind = "minimize" THEN s.minimize_bound[1] ELSE Cons[c].rhs

\* AbstractConstraintState.__init__ and ConstraintState.__init__
ConstraintState == [kind |-> "sum", inactive_level |-> 0, lower_bound |-> 0, upper_bound |-> 0]

\* ConstraintState.update; the return value is update_returns.
cs_update(cs, co, diff) ==
    IF co * diff < 0 THEN [cs EXCEPT !.upper_bound = @ + co * diff]
    ELSE [cs EXCEPT !.lower_bound = @ + co * diff]

\* Mutation: update reports a change of the upper bound instead of one of
\* the lower bound.
update_returns_mutant(cs, co, diff) == co * diff < 0

update_returns(cs, co, diff) == ~ (co * diff < 0)

\* Mutation: undo takes every change back from the lower bound.
cs_undo_mutant(cs, co, diff) == [cs EXCEPT !.lower_bound = @ - co * diff]

\* ConstraintState.undo
cs_undo(cs, co, diff) ==
    IF co * diff > 0 THEN [cs EXCEPT !.lower_bound = @ - co * diff]
    ELSE [cs EXCEPT !.upper_bound = @ - co * diff]

\* Mutation: the constraint of the objective is marked as well.
mark_inactive_mutant(s, c) ==
    IF ~ marked_inactive(s.cstate[c])
    THEN [s EXCEPT !.cstate[c].inactive_level = level(s).level + 1,
                   !.levels[Top(s)].inactive = Append(@, c)]
    ELSE s

\* State.mark_inactive
mark_inactive(s, c) ==
    IF tagged_removable(c) /\ ~ marked_inactive(s.cstate[c])
    THEN [s EXCEPT !.cstate[c].inactive_level = level(s).level + 1,
                   !.levels[Top(s)].inactive = Append(@, c)]
    ELSE s

RECURSIVE generate_reason_loop(_, _, _)
RECURSIVE generate_reason_loop_mutant(_, _, _)
\* Mutation: for a positive coefficient the literal of the lower bound
\* itself is collected.
generate_reason_loop_mutant(W, c, i) ==
    IF i > Len(Cons[c].elements) THEN W
    ELSE LET co  == Cons[c].elements[i][1]
             var == Cons[c].elements[i][2]
         IN  Sure(IF co > 0
                  THEN get_literal(W, var, lower_bound(W.s, var))
                  ELSE Bind(get_literal(W, var, upper_bound(W.s, var)),
                            LAMBDA Wg : [Wg EXCEPT !.lit = 0 - Wg.lit]),
                  LAMBDA W1 :
                    IF ~ is_false(W1.h, W1.lit)
                    THEN Fail(W1, "generate_reason:literal_not_false")
                    ELSE generate_reason_loop(
                           [W1 EXCEPT !.num = IF is_fixed(W1.h, W1.lit) THEN @ ELSE @ + 1,
                                      !.lbs = Append(@, W1.lit)], c, i + 1))

\* The loop of _generate_reason over the elements.
generate_reason_loop(W, c, i) ==
    IF i > Len(Cons[c].elements) THEN W
    ELSE LET co  == Cons[c].elements[i][1]
             var == Cons[c].elements[i][2]
         IN  Sure(IF co > 0
                  THEN get_literal(W, var, lower_bound(W.s, var) - 1)
                  ELSE Bind(get_literal(W, var, upper_bound(W.s, var)),
                            LAMBDA Wg : [Wg EXCEPT !.lit = 0 - Wg.lit]),
                  LAMBDA W1 :
                    IF ~ is_false(W1.h, W1.lit)
                    THEN Fail(W1, "generate_reason:literal_not_false")
                    ELSE generate_reason_loop(
                           [W1 EXCEPT !.num = IF is_fixed(W1.h, W1.lit) THEN @ ELSE @ + 1,
                                      !.lbs = Append(@, W1.lit)], c, i + 1))

\* ConstraintState._generate_reason: leaves num_guess in W.num and lbs in W.lbs.
_generate_reason(W, c) ==
    LET clit == Cons[c].literal
    IN  Sure(generate_reason_loop(
               [W EXCEPT !.lbs = <<>>, !.num = IF tagged(c) THEN 1 ELSE 0], c, 1),
             LAMBDA W1 :
               [W1 EXCEPT !.num = IF is_fixed(W1.h, clit) THEN @ ELSE @ + 1,
                          !.lbs = Append(@, 0 - clit)])

\* Mutation: for a negative coefficient the quotient is rounded up.
propagate_value_mutant(co, diff) ==
    IF co > 0 THEN FloorDiv(diff, co) ELSE 0 - FloorDiv(diff + (0 - co) - 1, 0 - co)

\* The value a term is propagated to: diff // co, resp. -(diff // -co).
propagate_value(co, diff) ==
    IF co > 0 THEN FloorDiv(diff, co) ELSE 0 - FloorDiv(diff, 0 - co)

\* Mutation: the reason is added as it is, with the bound literal of the
\* element in place of the derived literal.
propagate_term_mutant(W, c, slack, i) ==
    LET co     == Cons[c].elements[i][1]
        var    == Cons[c].elements[i][2]
        adjust == IF ~ is_fixed(W.h, W.lbs[i]) THEN 1 ELSE 0
        lb     == lower_bound(W.s, var)
        ub     == upper_bound(W.s, var)
        diff   == slack + co * (IF co > 0 THEN lb ELSE ub)
        val    == propagate_value(co, diff)
        truth  == IF co > 0 THEN (IF W.num = adjust THEN 1 ELSE 0)
                  ELSE (IF W.num > adjust THEN 0 ELSE -1)
    IN  IF (co > 0 /\ val >= ub) \/ (co < 0 /\ val <= lb)
        THEN [W EXCEPT !.ok = TRUE]
        ELSE Then(update_literal(W, var, IF co > 0 THEN val ELSE val - 1, truth),
                  LAMBDA Wu :
                    Bind(IF co > 0 THEN Wu.lit ELSE 0 - Wu.lit, LAMBDA lit :
                      IF ~ is_true(Wu.h, lit)
                      THEN add_clause_tag(Wu, Wu.lbs, tagged(c))
                      ELSE Wu))

\* The body of the loop of ConstraintState.propagate for element i.
propagate_term(W, c, slack, i) ==
    LET co     == Cons[c].elements[i][1]
        var    == Cons[c].elements[i][2]
        adjust == IF ~ is_fixed(W.h, W.lbs[i]) THEN 1 ELSE 0
        lb     == lower_bound(W.s, var)
        ub     == upper_bound(W.s, var)
        diff   == slack + co * (IF co > 0 THEN lb ELSE ub)
        val    == propagate_value(co, diff)
        truth  == IF co > 0 THEN (IF W.num = adjust THEN 1 ELSE 0)
                  ELSE (IF W.num > adjust THEN 0 ELSE -1)
    IN  IF co > 0 /\ val < lb THEN Fail(W, "propagate:value_below_lower")
        ELSE IF co < 0 /\ val > ub THEN Fail(W, "propagate:value_above_upper")
        ELSE IF (co > 0 /\ val >= ub) \/ (co < 0 /\ val <= lb)
        THEN [W EXCEPT !.ok = TRUE]
        ELSE Then(update_literal(W, var, IF co > 0 THEN val ELSE val - 1, truth),
                  LAMBDA Wu :
                    Bind(IF co > 0 THEN Wu.lit ELSE 0 - Wu.lit, LAMBDA lit :
                      IF ~ (diff - co * val >= 0 /\ diff - co * val < Abs(co))
                      THEN Fail(Wu, "propagate:slack_range")
                      ELSE IF ~ is_true(Wu.h, lit)
                      THEN add_clause_tag(Wu, [Wu.lbs EXCEPT ![i] = lit], tagged(c))
                      ELSE Wu))

RECURSIVE propagate_loop(_, _, _, _)
\* The loop of ConstraintState.propagate over the elements.
propagate_loop(W, c, slack, i) ==
    IF i > Len(Cons[c].elements) THEN [W EXCEPT !.ok = TRUE]
    ELSE Then(propagate_term(W, c, slack, i),
              LAMBDA Wc : propagate_loop(Wc, c, slack, i + 1))

RECURSIVE SumTerms(_, _, _)
\* Sum of co * (pos[var] if co > 0 else neg[var]) over the elements.
SumTerms(elements, pos, neg) ==
    IF elements = <<>> THEN 0
    ELSE LET co  == Head(elements)[1]
             var == Head(elements)[2]
         IN  co * (IF co > 0 THEN pos[var] ELSE neg[var]) + SumTerms(Tail(elements), pos, neg)

LowerOf(s) == [v \in Vars |-> lower_bound(s, v)]

UpperOf(s) == [v \in Vars |-> upper_bound(s, v)]

\* ConstraintState._check_state: "" when the cached bounds of the constraint
\* are the sums over the current bounds of its variables, otherwise the
\* assertion that fails.
_check_state(s, c) ==
    LET cs    == s.cstate[c]
        lower == SumTerms(Cons[c].elements, LowerOf(s), UpperOf(s))
        upper == SumTerms(Cons[c].elements, UpperOf(s), LowerOf(s))
    IN  IF ~ (lower <= upper) THEN "check_state:order"
        ELSE IF lower # cs.lower_bound THEN "check_state:lower"
        ELSE IF upper # cs.upper_bound THEN "check_state:upper"
        ELSE ""

\* The head of ConstraintState.propagate: CHECK_STATE is off, so a failure
\* of _check_state is not raised; the first one is kept in chk. A state
\* that remove_constraint deleted while the todo list held it is not looked
\* at.
propagate_check_state(W, c) ==
    IF c \in DOMAIN W.s.cstate /\ ~ marked_inactive(W.s.cstate[c]) /\ W.s.chk = ""
    THEN [W EXCEPT !.s.chk = _check_state(W.s, c)]
    ELSE W

\* Mutation: the result of adding the reason clause of a conflict is dropped.
cs_propagate_mutant(W, c) ==
    LET cs  == W.s.cstate[c]
        rhs == rhs_of(W.s, c)
    IN  IF is_false(W.h, Cons[c].literal) THEN Fail(W, "propagate:literal_false")
        ELSE IF rhs_is_none(W.s, c) \/ cs.upper_bound <= rhs
        THEN [W EXCEPT !.s = mark_inactive(W.s, c), !.ok = TRUE]
        ELSE IF rhs - cs.lower_bound < 0
        THEN Sure(_generate_reason([W EXCEPT !.s = mark_inactive(W.s, c)], c),
                  LAMBDA W1 : [add_clause_tag(W1, W1.lbs, tagged(c)) EXCEPT !.ok = TRUE])
        ELSE IF ~ is_true(W.h, Cons[c].literal) THEN [W EXCEPT !.ok = TRUE]
        ELSE Sure(_generate_reason(W, c),
                  LAMBDA W1 : propagate_loop(W1, c, rhs - cs.lower_bound, 1))

\* ConstraintState.propagate
cs_propagate(W0, c) ==
    LET W   == propagate_check_state(W0, c)
        cs  == W.s.cstate[c]
        rhs == rhs_of(W.s, c)
    IN  IF is_false(W.h, Cons[c].literal) THEN Fail(W, "propagate:literal_false")
        ELSE IF rhs_is_none(W.s, c) \/ cs.upper_bound <= rhs
        THEN [W EXCEPT !.s = mark_inactive(W.s, c), !.ok = TRUE]
        ELSE IF rhs - cs.lower_bound < 0
        THEN Sure(_generate_reason([W EXCEPT !.s = mark_inactive(W.s, c)], c),
                  LAMBDA W1 : add_clause_tag(W1, W1.lbs, tagged(c)))
        ELSE IF ~ is_true(W.h, Cons[c].literal) THEN [W EXCEPT !.ok = TRUE]
        ELSE Sure(_generate_reason(W, c),
                  LAMBDA W1 : propagate_loop(W1, c, rhs - cs.lower_bound, 1))

\* ConstraintState.check_full: "" when the constraint holds of the assigned
\* values, otherwise the assertion that fails.
cs_check_full(s, c) ==
    LET cs  == s.cstate[c]
        lhs == SumTerms(Cons[c].elements, LowerOf(s), LowerOf(s))
    IN  IF rhs_is_none(s, c) THEN ""
        ELSE IF \E i \in 1..Len(Cons[c].elements) : ~ is_assigned(s, Cons[c].elements[i][2])
        THEN "check_full:not_assigned"
        ELSE IF marked_inactive(cs) /\ ~ (lhs <= cs.upper_bound)
        THEN "check_full:inactive_upper"
        ELSE IF ~ marked_inactive(cs) /\ lhs # cs.lower_bound THEN "check_full:lower"
        ELSE IF ~ marked_inactive(cs) /\ lhs # cs.upper_bound THEN "check_full:upper"
        ELSE IF ~ (lhs <= rhs_of(s, c)) THEN "check_full:solution"
        ELSE ""


(***************************************************************************)
(* DistinctState.  Elements are numbered from 1; the entry of v2cs and of  *)
(* the todo list for element e is e or -e.                                 *)
(***************************************************************************)
\* Values a term of a distinct constraint can take.
TermValues == (3 * MIN_INT)..(3 * MAX_INT)

\* DistinctState.__init__
DistinctState ==
    [kind |-> "distinct", inactive_level |-> 0, dirty |-> <<>>, todo |-> <<>>,
     map_upper |-> [v \in TermValues |-> <<>>],
     map_lower |-> [v \in TermValues |-> <<>>],
     assigned |-> <<>>]

\* DistinctState.init
ds_init(s, ds, c, e) ==
    LET el == Cons[c].elements[e]
        lo == el[1] + SumTerms(el[2], LowerOf(s), UpperOf(s))
        up == el[1] + SumTerms(el[2], UpperOf(s), LowerOf(s))
    IN  [ds EXCEPT !.assigned = [k \in (DOMAIN @) \cup {e} |-> IF k = e THEN <<lo, up>> ELSE @[k]],
                   !.map_upper[up] = Append(@, e),
                   !.map_lower[lo] = Append(@, e)]

\* Mutation: the changed term is marked dirty but not queued.
ds_update_mutant(ds, i) == [ds EXCEPT !.dirty = TodoAdd(@, Abs(i))]

\* DistinctState.update
ds_update(ds, i) == [ds EXCEPT !.dirty = TodoAdd(@, Abs(i)), !.todo = TodoAdd(@, i)]

\* DistinctState.undo
ds_undo(ds, i) == [ds EXCEPT !.dirty = TodoAdd(@, Abs(i)), !.todo = <<>>]

RECURSIVE ds_update_dirty(_, _, _, _)
\* DistinctState._update
ds_update_dirty(s, ds, c, dirty) ==
    IF dirty = <<>> THEN [ds EXCEPT !.dirty = <<>>]
    ELSE LET e  == Head(dirty)
             lo == ds.assigned[e][1]
             up == ds.assigned[e][2]
             d1 == [ds EXCEPT !.map_lower[lo] = RemoveFirst(@, e),
                              !.map_upper[up] = RemoveFirst(@, e)]
         IN  ds_update_dirty(s, ds_init(s, d1, c, e), c, Tail(dirty))

RECURSIVE ds_reason_assigned(_, _)
\* The loop of _propagate over the variables of the assigned element.
ds_reason_assigned(W, elements) ==
    IF elements = <<>> \/ W.err # "" THEN W
    ELSE LET var == Head(elements)[2]
         IN  IF ~ is_assigned(W.s, var) THEN Fail(W, "distinct:not_assigned")
             ELSE Sure(get_literal(W, var, upper_bound(W.s, var)), LAMBDA W1 :
                    Bind(0 - W1.lit, LAMBDA l1 :
                      IF ~ is_false(W1.h, l1) THEN Fail(W1, "distinct:reason_not_false")
                      ELSE Sure(get_literal(W1, var, lower_bound(W1.s, var) - 1), LAMBDA W2 :
                             Bind(W2.lit, LAMBDA l2 :
                               IF ~ is_false(W2.h, l2) THEN Fail(W2, "distinct:reason_not_false")
                               ELSE ds_reason_assigned(
                                      [W2 EXCEPT !.lbs = @ \o <<l1, l2>>,
                                                 !.num = IF is_fixed(W2.h, l1) /\ is_fixed(W2.h, l2)
                                                         THEN @ ELSE 0],
                                      Tail(elements))))))

RECURSIVE ds_reason_bounded(_, _, _)
\* The loop of _propagate over the variables of the bounded element, ending
\* with the clause.
ds_reason_bounded(W, sgn, elements) ==
    IF elements = <<>> THEN add_clause(W, W.lbs)
    ELSE LET co  == Head(elements)[1]
             var == Head(elements)[2]
         IN  Sure(IF sgn * co > 0
                  THEN Bind(get_literal(W, var, upper_bound(W.s, var)),
                            LAMBDA Wg : [Wg EXCEPT !.lit = 0 - Wg.lit])
                  ELSE get_literal(W, var, lower_bound(W.s, var) - 1),
                  LAMBDA W1 :
                    Bind(W1.lit, LAMBDA r1 :
                      IF ~ is_false(W1.h, r1) THEN Fail(W1, "distinct:reason_not_false")
                      ELSE Bind(IF is_fixed(W1.h, r1) THEN W1.num ELSE 0, LAMBDA f :
                             Then(IF sgn * co > 0
                                  THEN update_literal(W1, var, upper_bound(W1.s, var) - 1,
                                                      IF f = 1 THEN 1 ELSE 0)
                                  ELSE Bind(update_literal(W1, var, lower_bound(W1.s, var),
                                                           IF f = 1 THEN -1 ELSE 0),
                                            LAMBDA Wu : [Wu EXCEPT !.lit = 0 - Wu.lit]),
                                  LAMBDA W2 :
                                    IF is_true(W2.h, W2.lit) THEN [W2 EXCEPT !.ok = TRUE]
                                    ELSE ds_reason_bounded(
                                           [W2 EXCEPT !.lbs = @ \o <<r1, W2.lit>>, !.num = f],
                                           sgn, Tail(elements))))))

\* DistinctState._propagate(cc, state, s, i, j) with elements i and j
ds__propagate(W, c, sgn, i, j) ==
    Sure(ds_reason_assigned(
           [W EXCEPT !.lbs = <<>>,
                     !.num = IF Len(Cons[c].elements[j][2]) = 1 THEN 1 ELSE 0],
           Cons[c].elements[i][2]),
         LAMBDA W1 : ds_reason_bounded(W1, sgn, Cons[c].elements[j][2]))

RECURSIVE ds_propagate_each(_, _, _, _, _)
\* _propagate(sgn, j, k) for every k of ks other than j.
ds_propagate_each(W, c, sgn, j, ks) ==
    IF ks = <<>> THEN [W EXCEPT !.ok = TRUE]
    ELSE Then(IF Head(ks) = j THEN [W EXCEPT !.ok = TRUE]
              ELSE ds__propagate(W, c, sgn, j, Head(ks)),
              LAMBDA W1 : ds_propagate_each(W1, c, sgn, j, Tail(ks)))

\* The first assigned element of ks, 0 if there is none.
FirstAssigned(ds, ks) ==
    LET idx == {n \in 1..Len(ks) : ds.assigned[ks[n]][1] = ds.assigned[ks[n]][2]}
    IN  IF idx = {} THEN 0 ELSE ks[CHOOSE n \in idx : \A m \in idx : n <= m]

RECURSIVE ds_propagate_todo(_, _, _)
\* The loop of DistinctState.propagate over its todo list.
ds_propagate_todo(W, c, todo) ==
    IF todo = <<>> THEN [W EXCEPT !.s.cstate[c].todo = <<>>, !.ok = TRUE]
    ELSE LET i  == Head(todo)
             j  == Abs(i)
             ds == W.s.cstate[c]
             lo == ds.assigned[j][1]
             up == ds.assigned[j][2]
             k  == FirstAssigned(ds, IF i < 0 THEN ds.map_upper[up] ELSE ds.map_lower[lo])
         IN  Then(IF lo = up
                  THEN Then(ds_propagate_each(W, c, 1, j, ds.map_upper[up]),
                            LAMBDA Wa : ds_propagate_each(Wa, c, -1, j, ds.map_lower[lo]))
                  ELSE IF k = 0 \/ InSeq(ds.todo, k) \/ InSeq(ds.todo, 0 - k)
                  THEN [W EXCEPT !.ok = TRUE]
                  ELSE ds__propagate(W, c, IF i < 0 THEN 1 ELSE -1, k, j),
                  LAMBDA W1 : ds_propagate_todo(W1, c, Tail(todo)))

\* DistinctState.propagate
ds_propagate(W, c) ==
    Bind(ds_update_dirty(W.s, W.s.cstate[c], c, W.s.cstate[c].dirty), LAMBDA ds :
      ds_propagate_todo([W EXCEPT !.s.cstate[c] = ds], c, ds.todo))

\* The values of the terms of a distinct constraint under the upper bounds.
ds_values(s, c) ==
    [e \in 1..Len(Cons[c].elements) |->
        Cons[c].elements[e][1] + SumTerms(Cons[c].elements[e][2], UpperOf(s), UpperOf(s))]

\* DistinctState.check_full
ds_check_full(s, c) ==
    IF \E e \in 1..Len(Cons[c].elements) : \E n \in 1..Len(Cons[c].elements[e][2]) :
           ~ is_assigned(s, Cons[c].elements[e][2][n][2])
    THEN "check_full:not_assigned"
    ELSE IF \E e, f \in 1..Len(Cons[c].elements) : e # f /\ ds_values(s, c)[e] = ds_values(s, c)[f]
    THEN "check_full:solution"
    ELSE ""

(***************************************************************************)
(* State: check, undo, check_full                                          *)
(***************************************************************************)
RECURSIVE update_constraints_loop(_, _, _, _, _)
\* The loop of _update_constraints over the entries l of v2cs[var]; kept
\* collects the entries that stay.
update_constraints_loop(W, var, diff, l, kept) ==
    IF l = <<>> THEN [W EXCEPT !.s.v2cs[var] = kept]
    ELSE LET co == Head(l)[1]
             c  == Head(l)[2]
         IN  IF ~ removable(W.s.cstate[c], level(W.s).level)
             THEN IF Cons[c].kind = "distinct"
                  THEN update_constraints_loop(
                         [W EXCEPT !.s.cstate[c] = ds_update(@, co),
                                   !.s.todo = TodoAdd(@, c)],
                         var, diff, Tail(l), Append(kept, Head(l)))
                  ELSE IF co * diff = 0 THEN Fail(W, "update:zero_diff")
                  ELSE update_constraints_loop(
                         [W EXCEPT !.s.cstate[c] = cs_update(@, co, diff),
                                   !.s.todo = IF update_returns(W.s.cstate[c], co, diff)
                                              THEN TodoAdd(@, c) ELSE @],
                         var, diff, Tail(l), Append(kept, Head(l)))
             ELSE update_constraints_loop(
                    [W EXCEPT !.s.levels[Top(W.s)].removed_v2cs = Append(@, <<var, co, c>>)],
                    var, diff, Tail(l), kept)

_update_constraints(W, var, diff) ==
    update_constraints_loop(W, var, diff, W.s.v2cs[var], <<>>)

RECURSIVE drain_diffs(_, _)
drain_diffs(W, d) ==
    IF d = <<>> \/ W.err # "" THEN W
    ELSE drain_diffs(_update_constraints(W, Head(d)[1], Head(d)[2]), Tail(d))

\* State._num_facts
_num_facts(s) == <<Len(s.litmap[TRUE_LIT]), Len(s.litmap[0 - TRUE_LIT])>>

RECURSIVE check_todo(_, _)
\* The loop of check over the swapped-out todo list.
check_todo(W, todo) ==
    IF todo = <<>> THEN [W EXCEPT !.ok = TRUE]
    ELSE LET c  == Head(todo)
         IN  Then(IF ~ is_false(W.h, Cons[c].literal)
                  THEN (IF Cons[c].kind = "distinct" THEN ds_propagate(W, c)
                        ELSE cs_propagate(W, c))
                  ELSE [W EXCEPT !.s = mark_inactive(W.s, c), !.ok = TRUE],
                  LAMBDA W1 : check_todo(W1, Tail(todo)))

\* check: facts that have not been integrated yet are integrated on level 0.
integrate_facts(W) ==
    IF W.s.facts_integrated # _num_facts(W.s)
    THEN IF W.h.dl # 0 THEN Fail(W, "check:facts_above_level_0")
         ELSE Then(_update_domain(W, TRUE_LIT),
                   LAMBDA Wd : [Wd EXCEPT !.s.facts_integrated = _num_facts(Wd.s)])
    ELSE [W EXCEPT !.ok = TRUE]

\* Mutation: the pending changes of lower bounds are not cleared.
update_bounds_of_constraints_mutant(W) ==
    Bind(drain_diffs(W, W.s.udiff), LAMBDA W2 :
      drain_diffs([W2 EXCEPT !.s.udiff = <<>>], W2.s.ldiff))

\* check: the pending bound changes are pushed into the constraint states
\* and cleared.
update_bounds_of_constraints(W) ==
    Bind(drain_diffs(W, W.s.udiff), LAMBDA W2 :
      [drain_diffs([W2 EXCEPT !.s.udiff = <<>>], W2.s.ldiff) EXCEPT !.s.ldiff = <<>>])

RECURSIVE check_loop(_)
check_loop(W) ==
    Then(integrate_facts(W), LAMBDA W1 :
      Sure(update_bounds_of_constraints(W1), LAMBDA W4 :
        Then(check_todo([W4 EXCEPT !.s.todo = <<>>], W4.s.todo), LAMBDA W5 :
          IF W5.s.facts_integrated = _num_facts(W5.s) THEN W5 ELSE check_loop(W5))))

\* State.check
check(W) ==
    IF W.h.dl # level(W.s).level /\ level(W.s).level >= W.s.minimize_level
    THEN [W EXCEPT !.ok = TRUE]
    ELSE check_loop(W)

RECURSIVE undo_entries(_, _, _)
\* cs.undo(co, diff) for every entry of v2cs[var].
undo_entries(s, l, diff) ==
    IF l = <<>> THEN s
    ELSE undo_entries([s EXCEPT !.cstate[Head(l)[2]] =
                                    IF Cons[Head(l)[2]].kind = "distinct"
                                    THEN ds_undo(@, Head(l)[1])
                                    ELSE cs_undo(@, Head(l)[1], diff)],
                      Tail(l), diff)

RECURSIVE undo_lower_loop(_, _)
undo_lower_loop(W, vs) ==
    IF vs = <<>> THEN W
    ELSE LET var == Head(vs)
             val == lower_bound(W.s, var)
         IN  IF Len(W.s.lower[var]) <= 1 THEN Fail(W, "pop_lower:stack_of_size_one")
             ELSE LET s1   == [W.s EXCEPT !.lower[var] = Front(@)]
                      diff == val - lower_bound(s1, var) - DictGet(s1.ldiff, var)
                      s2   == IF diff # 0 THEN undo_entries(s1, s1.v2cs[var], diff) ELSE s1
                  IN  undo_lower_loop([W EXCEPT !.s = s2], Tail(vs))

RECURSIVE undo_upper_loop(_, _)
undo_upper_loop(W, vs) ==
    IF vs = <<>> THEN W
    ELSE LET var == Head(vs)
             val == upper_bound(W.s, var)
         IN  IF Len(W.s.upper[var]) <= 1 THEN Fail(W, "pop_upper:stack_of_size_one")
             ELSE LET s1   == [W.s EXCEPT !.upper[var] = Front(@)]
                      diff == val - upper_bound(s1, var) - DictGet(s1.udiff, var)
                      s2   == IF diff # 0 THEN undo_entries(s1, s1.v2cs[var], diff) ELSE s1
                  IN  undo_upper_loop([W EXCEPT !.s = s2], Tail(vs))

\* Mutation: the constraint states marked inactive on the level stay marked.
mark_active_all_mutant(s, cs) == s

RECURSIVE mark_active_all(_, _)
mark_active_all(s, cs) ==
    IF cs = <<>> THEN s
    ELSE mark_active_all([s EXCEPT !.cstate[Head(cs)].inactive_level = 0], Tail(cs))

\* undo that attaches nothing again.
reattach_mutant(s, removed) == s

RECURSIVE reattach(_, _)
\* undo: for var, co, cs in lvl.removed_v2cs: self._v2cs[var].append((co, cs))
reattach(s, removed) ==
    IF removed = <<>> THEN s
    ELSE reattach([s EXCEPT !.v2cs[Head(removed)[1]] =
                                Append(@, <<Head(removed)[2], Head(removed)[3]>>)],
                  Tail(removed))

\* State.undo
undo(W) ==
    LET lvl == level(W.s)
    IN  Sure(undo_lower_loop(W, lvl.undo_lower), LAMBDA W1 :
          Sure(undo_upper_loop([W1 EXCEPT !.s.ldiff = <<>>], lvl.undo_upper), LAMBDA W2 :
            Bind(reattach(mark_active_all([W2.s EXCEPT !.udiff = <<>>], lvl.inactive),
                          lvl.removed_v2cs),
                 LAMBDA s3 :
                   IF Len(s3.levels) <= 1 THEN Fail([W2 EXCEPT !.s = s3], "pop_level:level_0")
                   ELSE [W2 EXCEPT !.s = [s3 EXCEPT !.levels = Front(@), !.todo = <<>>]])))

\* Mutation: the interpolation returns the upper end.
lerp_mutant(x, y) == y

\* util.lerp
lerp(x, y) == x + FloorDiv(y - x, 2)

\* chain(range(lerp_last, n), range(0, lerp_last)) as 1-based positions.
ScanOrder(s) ==
    [k \in 1..Len(s.vars) |-> ((s.lerp_last + k - 1) % Len(s.vars)) + 1]

\* The assertions of the CHECK_SOLUTION pass of check_full that fail.
SolutionErrors(s, h) ==
    UNION {{IF Cons[s.l2c[l][i]].kind = "distinct" THEN ds_check_full(s, s.l2c[l][i])
            ELSE cs_check_full(s, s.l2c[l][i]) : i \in 1..Len(s.l2c[l])} :
              l \in {k \in Lits : is_true(h, k)}} \ {""}

\* check_full that scans the variables from the first one on.
check_full_mutant(W) ==
    LET open == {k \in 1..Len(W.s.vars) : ~ is_assigned(W.s, W.s.vars[k])}
    IN  IF open # {}
        THEN LET k   == CHOOSE a \in open : \A b \in open : a <= b
                 var == W.s.vars[k]
             IN  get_literal([W EXCEPT !.s.lerp_last = k - 1], var,
                             lerp(lower_bound(W.s, var), upper_bound(W.s, var)))
        ELSE Bind(SolutionErrors(W.s, W.h), LAMBDA errs :
               IF errs # {} THEN Fail(W, CHOOSE e \in errs : TRUE) ELSE W)

\* State.check_full
check_full(W) ==
    LET order == ScanOrder(W.s)
        open  == {k \in 1..Len(order) : ~ is_assigned(W.s, W.s.vars[order[k]])}
    IN  IF open # {}
        THEN LET k   == CHOOSE a \in open : \A b \in open : a <= b
                 var == W.s.vars[order[k]]
             IN  get_literal([W EXCEPT !.s.lerp_last = order[k] - 1], var,
                             lerp(lower_bound(W.s, var), upper_bound(W.s, var)))
        ELSE Bind(SolutionErrors(W.s, W.h), LAMBDA errs :
               IF errs # {} THEN Fail(W, CHOOSE e \in errs : TRUE) ELSE W)

\* Mutation: the offered bound is stored whether it improves or not.
update_minimize_mutant(s, minimize, dl, bound) ==
    [s EXCEPT !.minimize_bound = <<bound>>,
              !.minimize_level = dl,
              !.todo = TodoAdd(@, minimize)]

\* State.update_minimize
update_minimize(s, minimize, dl, bound) ==
    IF s.minimize_bound = <<>> \/ bound < s.minimize_bound[1]
    THEN [s EXCEPT !.minimize_bound = <<bound>>,
                   !.minimize_level = dl,
                   !.todo = TodoAdd(@, minimize)]
    ELSE IF dl < s.minimize_level
    THEN [s EXCEPT !.minimize_level = dl,
                   !.todo = TodoAdd(@, minimize)]
    ELSE s

\* Propagator.has_minimize
has_minimize(p) == p.minimize # 0

\* The head of Propagator.check: the bound of the propagator, adjusted, is
\* offered to the state.
check_minimize(W) ==
    IF has_minimize(W.p) /\ W.p.minimize_bound # <<>>
    THEN IF W.p.minimize \notin DOMAIN W.s.cstate THEN Fail(W, "update_minimize:no_state")
         ELSE [W EXCEPT !.s = update_minimize(W.s, W.p.minimize, W.h.dl,
                                  W.p.minimize_bound[1] + Cons[W.p.minimize].adjust)]
    ELSE W

\* Propagator.check
Propagator_check(W) ==
    LET size == Cardinality(W.h.used)
    IN  Then(check(check_minimize(W)), LAMBDA W1 :
          IF size = Cardinality(W1.h.used) /\ is_total(W1.h)
          THEN [check_full(W1) EXCEPT !.ok = TRUE]
          ELSE W1)


(***************************************************************************)
(* State: adding constraints, simplification, reinitialisation             *)
(***************************************************************************)
\* Mutation: a variable that is already known is set up again.
add_variable_mutant(s, var) ==
    [s EXCEPT !.vars = IF InSeq(@, var) THEN @ ELSE Append(@, var),
              !.lower[var] = <<MIN_INT>>,
              !.upper[var] = <<MAX_INT>>,
              !.literals[var] = NoLiterals]

\* Propagator.add_variable with State.add_variable
add_variable(s, var) ==
    IF InSeq(s.vars, var) THEN s
    ELSE [s EXCEPT !.vars = Append(@, var),
                   !.lower[var] = <<MIN_INT>>,
                   !.upper[var] = <<MAX_INT>>,
                   !.literals[var] = NoLiterals]

RECURSIVE add_variables(_, _)
add_variables(s, elements) ==
    IF elements = <<>> THEN s
    ELSE add_variables(add_variable(s, Head(elements)[2]), Tail(elements))

RECURSIVE attach(_, _, _)
\* The loop of State.add_constraint over the elements.
attach(s, c, elements) ==
    IF elements = <<>> THEN s
    ELSE LET co  == Head(elements)[1]
             var == Head(elements)[2]
             lo  == IF co > 0 THEN lower_bound(s, var) * co ELSE upper_bound(s, var) * co
             up  == IF co > 0 THEN upper_bound(s, var) * co ELSE lower_bound(s, var) * co
         IN  attach([s EXCEPT !.v2cs[var] = Append(@, <<co, c>>),
                              !.cstate[c].lower_bound = @ + lo,
                              !.cstate[c].upper_bound = @ + up], c, Tail(elements))

\* State.add_constraint
add_constraint(s, c) ==
    LET s1 == [s EXCEPT !.cstate = [k \in (DOMAIN @) \cup {c} |->
                                       IF k = c THEN ConstraintState ELSE @[k]]]
        s2 == attach(s1, c, Cons[c].elements)
    IN  [s2 EXCEPT !.todo = TodoAdd(@, c)]

\* Propagator.add_constraint
Propagator_add_constraint(W, c) ==
    LET W1 == add_watch(W, Cons[c].literal)
    IN  [W1 EXCEPT !.s = add_constraint(
                           add_variables([W1.s EXCEPT !.l2c[Cons[c].literal] = Append(@, c)],
                                         Cons[c].elements), c)]

RECURSIVE attach_distinct(_, _, _, _)
\* The inner loop of State.add_distinct over the variables of element e.
attach_distinct(s, c, e, elements) ==
    IF elements = <<>> THEN s
    ELSE attach_distinct(
           [s EXCEPT !.v2cs[Head(elements)[2]] =
                         Append(@, <<IF Head(elements)[1] > 0 THEN e ELSE 0 - e, c>>)],
           c, e, Tail(elements))

RECURSIVE add_distinct_loop(_, _, _, _)
add_distinct_loop(s, ds, c, e) ==
    IF e > Len(Cons[c].elements)
    THEN [s EXCEPT !.cstate = [k \in (DOMAIN @) \cup {c} |-> IF k = c THEN ds ELSE @[k]],
                   !.todo = TodoAdd(@, c)]
    ELSE add_distinct_loop(attach_distinct(s, c, e, Cons[c].elements[e][2]),
                           ds_init(s, ds, c, e), c, e + 1)

\* State.add_distinct
add_distinct(s, c) == add_distinct_loop(s, DistinctState, c, 1)

RECURSIVE add_term_variables(_, _)
add_term_variables(s, terms) ==
    IF terms = <<>> THEN s
    ELSE add_term_variables(add_variables(s, Head(terms)[2]), Tail(terms))

\* CSPBuilder.add_distinct with Propagator.add_distinct, for a constraint
\* of more than two terms.
builder_add_distinct(W, c) ==
    IF is_false(W.h, Cons[c].literal) THEN W
    ELSE LET W1 == [W EXCEPT !.s = add_term_variables(W.s, Cons[c].elements)]
             W2 == add_watch(W1, Cons[c].literal)
         IN  [W2 EXCEPT !.s = add_distinct([W2.s EXCEPT !.l2c[Cons[c].literal] = Append(@, c)], c)]

RECURSIVE detach(_, _, _)
detach(s, c, elements) ==
    IF elements = <<>> THEN s
    ELSE detach([s EXCEPT !.v2cs[Head(elements)[2]] = RemoveFirst(@, <<Head(elements)[1], c>>)],
                c, Tail(elements))

\* State.remove_constraint
remove_constraint(W, c) ==
    IF \E i \in 1..Len(Cons[c].elements) :
           ~ InSeq(W.s.v2cs[Cons[c].elements[i][2]], <<Cons[c].elements[i][1], c>>)
    THEN Fail(W, "remove_constraint:not_in_v2cs")
    ELSE LET s1 == detach(W.s, c, Cons[c].elements)
         IN  [W EXCEPT !.s = [s1 EXCEPT
                 !.cstate = [k \in (DOMAIN @) \ {c} |-> @[k]],
                 !.levels[Top(s1)].inactive = IF InSeq(@, c) THEN RemoveFirst(@, c) ELSE @]]

\* Mutation: for a negative coefficient the value is not moved down by one.
integrate_simple_mutant(W, c, strict) ==
    LET clit  == Cons[c].literal
        co    == Cons[c].elements[1][1]
        var   == Cons[c].elements[1][2]
        truth == IF co > 0 THEN value(W.h, clit) ELSE value(W.h, 0 - clit)
        val   == IF co > 0 THEN FloorDiv(rhs_of(W.s, c), co)
                 ELSE 0 - FloorDiv(rhs_of(W.s, c), 0 - co)
    IN  IF ~ strict /\ is_false(W.h, clit) THEN [W EXCEPT !.ok = TRUE]
        ELSE IF Len(Cons[c].elements) # 1 THEN Fail(W, "integrate_simple:not_singleton")
        ELSE IF strict /\ min_bound(W.s, var) <= val /\ val < max_bound(W.s, var)
                /\ ~ has_literal(W.s, var, val)
        THEN LET lit0 == IF co < 0 THEN 0 - clit ELSE clit
                 lit  == IF truth = 0 THEN lit0
                         ELSE IF truth = 1 THEN TRUE_LIT ELSE 0 - TRUE_LIT
             IN  Bind(IF truth = 0 THEN add_watch(add_watch(W, lit0), 0 - lit0) ELSE W,
                      LAMBDA W1 :
                        [W1 EXCEPT !.s = litmap_append(set_literal(W1.s, var, val, lit),
                                                       lit, var, val),
                                   !.ok = TRUE])
        ELSE Then(update_literal(W, var, val, truth), LAMBDA Wu :
               Bind(IF co < 0 THEN 0 - Wu.lit ELSE Wu.lit, LAMBDA lit :
                 Then(add_clause(Wu, <<0 - clit, lit>>), LAMBDA W1 :
                   IF strict THEN add_clause(W1, <<0 - lit, clit>>) ELSE W1)))

\* State.integrate_simple
integrate_simple(W, c, strict) ==
    LET clit  == Cons[c].literal
        co    == Cons[c].elements[1][1]
        var   == Cons[c].elements[1][2]
        truth == IF co > 0 THEN value(W.h, clit) ELSE value(W.h, 0 - clit)
        val   == IF co > 0 THEN FloorDiv(rhs_of(W.s, c), co)
                 ELSE 0 - FloorDiv(rhs_of(W.s, c), 0 - co) - 1
    IN  IF ~ strict /\ is_false(W.h, clit) THEN [W EXCEPT !.ok = TRUE]
        ELSE IF Len(Cons[c].elements) # 1 THEN Fail(W, "integrate_simple:not_singleton")
        ELSE IF strict /\ min_bound(W.s, var) <= val /\ val < max_bound(W.s, var)
                /\ ~ has_literal(W.s, var, val)
        THEN LET lit0 == IF co < 0 THEN 0 - clit ELSE clit
                 lit  == IF truth = 0 THEN lit0
                         ELSE IF truth = 1 THEN TRUE_LIT ELSE 0 - TRUE_LIT
             IN  Bind(IF truth = 0 THEN add_watch(add_watch(W, lit0), 0 - lit0) ELSE W,
                      LAMBDA W1 :
                        [W1 EXCEPT !.s = litmap_append(set_literal(W1.s, var, val, lit),
                                                       lit, var, val),
                                   !.ok = TRUE])
        ELSE Then(update_literal(W, var, val, truth), LAMBDA Wu :
               Bind(IF co < 0 THEN 0 - Wu.lit ELSE Wu.lit, LAMBDA lit :
                 Then(add_clause(Wu, <<0 - clit, lit>>), LAMBDA W1 :
                   IF strict THEN add_clause(W1, <<0 - lit, clit>>) ELSE W1)))

RECURSIVE integrate_forward(_, _, _, _, _)
\* The first loop of State.integrate_domain: var >= py implies var >= x,
\* where py holds the end of the interval before (<<>>: None).
integrate_forward(W, literal, var, domain, py) ==
    IF domain = <<>> THEN [W EXCEPT !.ok = TRUE]
    ELSE LET x  == Head(domain)[1]
             y  == Head(domain)[2]
             Wy == IF py = <<>> THEN [W EXCEPT !.lit = TRUE_LIT]
                   ELSE get_literal(W, var, py[1] - 1)
             ly == IF py = <<>> THEN TRUE_LIT ELSE 0 - Wy.lit
             true == literal = TRUE_LIT /\ is_true(Wy.h, ly)
         IN  Sure(Wy, LAMBDA W1 :
               Then(update_literal(W1, var, x - 1, IF true THEN -1 ELSE 0), LAMBDA Wx :
                 Then(add_clause(Wx, <<0 - literal, 0 - ly, 0 - Wx.lit>>), LAMBDA W2 :
                   integrate_forward(W2, literal, var, Tail(domain), <<y>>))))

RECURSIVE integrate_backward(_, _, _, _, _)
\* The second loop of State.integrate_domain, over the reversed domain:
\* var < px implies var < y, where px holds the start of the interval after.
integrate_backward(W, literal, var, domain, px) ==
    IF domain = <<>> THEN [W EXCEPT !.ok = TRUE]
    ELSE LET x  == domain[Len(domain)][1]
             y  == domain[Len(domain)][2]
             Wy == IF px = <<>> THEN [W EXCEPT !.lit = TRUE_LIT]
                   ELSE get_literal(W, var, px[1] - 1)
             ly == Wy.lit
             true == literal = TRUE_LIT /\ is_true(Wy.h, ly)
         IN  Sure(Wy, LAMBDA W1 :
               Then(update_literal(W1, var, y - 1, IF true THEN 1 ELSE 0), LAMBDA Wx :
                 Then(add_clause(Wx, <<0 - literal, 0 - ly, Wx.lit>>), LAMBDA W2 :
                   integrate_backward(W2, literal, var, Front(domain), <<x>>))))

\* State.integrate_domain
integrate_domain(W, literal, var, domain) ==
    IF is_false(W.h, literal) THEN [W EXCEPT !.ok = TRUE]
    ELSE Bind(IF is_true(W.h, literal) THEN TRUE_LIT ELSE literal, LAMBDA lit :
           Then(integrate_forward(W, lit, var, domain, <<>>), LAMBDA W1 :
             integrate_backward(W1, lit, var, domain, <<>>)))

\* CSPBuilder.add_constraint
builder_add_constraint(W, c) ==
    IF ~ Cons[c].strict /\ is_false(W.h, Cons[c].literal) THEN W
    ELSE IF Len(Cons[c].elements) = 1
    THEN integrate_simple([W EXCEPT !.s = add_variable(W.s, Cons[c].elements[1][2])],
                          c, Cons[c].strict)
    ELSE IF Cons[c].strict THEN Fail(W, "add_constraint:strict")
    ELSE Propagator_add_constraint(W, c)

\* CSPBuilder.add_minimize for the terms of one minimize statement.
builder_add_minimize(W, c) ==
    [W EXCEPT !.p.builder = c, !.s = add_variables(W.s, Cons[c].elements)]

\* Propagator.add_minimize
add_minimize(W, minimize) ==
    Propagator_add_constraint([W EXCEPT !.p.minimize = minimize], minimize)

\* Propagator.remove_minimize; the removed constraint goes to the builder.
remove_minimize(W) ==
    IF ~ has_minimize(W.p) THEN [W EXCEPT !.p.builder = 0]
    ELSE LET minimize == W.p.minimize
         IN  remove_constraint(
                 [W EXCEPT !.p.minimize = 0,
                           !.p.builder = minimize,
                           !.s.l2c[Cons[minimize].literal] = RemoveFirst(@, minimize)],
                 minimize)

RECURSIVE parse_theory(_, _)
\* The theory atoms of the step handed to the builder one by one.
parse_theory(W, stmts) ==
    IF stmts = <<>> \/ W.err # "" THEN W
    ELSE parse_theory(IF Cons[Head(stmts)].kind = "minimize"
                      THEN builder_add_minimize(W, Head(stmts))
                      ELSE IF Cons[Head(stmts)].kind = "distinct"
                      THEN builder_add_distinct(W, Head(stmts))
                      ELSE builder_add_constraint(W, Head(stmts)), Tail(stmts))

RECURSIVE finalize_loop(_, _)
finalize_loop(W, clauses) ==
    IF clauses = <<>> THEN [W EXCEPT !.ok = TRUE]
    ELSE Then(solver_add_clause(W, Head(clauses)),
              LAMBDA W1 : finalize_loop(W1, Tail(clauses)))

\* CSPBuilder.finalize
finalize(W) == finalize_loop([W EXCEPT !.h.pending = <<>>], W.h.pending)

RECURSIVE simplify(_)
\* State.simplify
simplify(W) ==
    Then(cc_propagate(W), LAMBDA W1 :
      Bind(Len(W1.h.trail), LAMBDA off :
        IF W1.s.trail_offset = off /\ W1.s.todo = <<>> THEN W1
        ELSE Then(propagate(W1, Slice(W1.h.trail, W1.s.trail_offset)), LAMBDA W2 :
               Then(check([W2 EXCEPT !.s.trail_offset = off]), LAMBDA W3 : simplify(W3)))))


RECURSIVE SortedSeq(_)
\* sorted(...) of a set of integers.
SortedSeq(S) ==
    IF S = {} THEN <<>>
    ELSE LET m == CHOOSE a \in S : \A b \in S : a <= b
         IN  <<m>> \o SortedSeq(S \ {m})

RECURSIVE unset_all(_, _)
\* update: for vs, value in vss: vs.unset_literal(value)
unset_all(s, pairs) ==
    IF pairs = <<>> THEN s
    ELSE unset_all(unset_literal(s, Head(pairs)[1], Head(pairs)[2]), Tail(pairs))

RECURSIVE remove_invalid_loop(_, _)
remove_invalid_loop(s, lits) ==
    IF lits = <<>> THEN s
    ELSE remove_invalid_loop(
           [unset_all(s, s.litmap[Head(lits)]) EXCEPT !.litmap[Head(lits)] = <<>>],
           Tail(lits))

RECURSIVE map_fixed(_, _, _)
map_fixed(s, lit, pairs) ==
    IF pairs = <<>> THEN s
    ELSE map_fixed(set_literal(litmap_append(s, lit, Head(pairs)[1], Head(pairs)[2]),
                               Head(pairs)[1], Head(pairs)[2], lit),
                   lit, Tail(pairs))

RECURSIVE remove_fixed_loop(_, _, _)
remove_fixed_loop(s, h, lits) ==
    IF lits = <<>> THEN s
    ELSE LET old == Head(lits)
             lit == IF is_true(h, old) THEN TRUE_LIT ELSE 0 - TRUE_LIT
         IN  remove_fixed_loop([map_fixed(s, lit, s.litmap[old]) EXCEPT !.litmap[old] = <<>>],
                               h, Tail(lits))

\* State.update
update(s, h) ==
    LET keys    == {l \in Lits : s.litmap[l] # <<>> /\ Abs(l) # TRUE_LIT}
        invalid == {l \in keys : ~ ass_has_literal(h, l)}
        fixed   == {l \in keys : ass_has_literal(h, l) /\ is_fixed(h, l)}
        s1      == remove_invalid_loop([s EXCEPT !.minimize_bound = <<>>, !.minimize_level = 0],
                                       SortedSeq(invalid))
    IN  remove_fixed_loop(s1, h, SortedSeq(fixed))

RECURSIVE SelectPairs(_, _, _, _)
\* The pairs of a litmap entry for which the predicate of cleanup_literals
\* is keep (the pair is the current bound) resp. not keep.
SelectPairs(s, lit, pairs, keep) ==
    IF pairs = <<>> THEN <<>>
    ELSE LET var  == Head(pairs)[1]
             v    == Head(pairs)[2]
             pred == IF lit = TRUE_LIT THEN v # upper_bound(s, var)
                     ELSE v # lower_bound(s, var) - 1
         IN  (IF pred # keep THEN <<Head(pairs)>> ELSE <<>>)
             \o SelectPairs(s, lit, Tail(pairs), keep)

RECURSIVE cleanup_removed(_, _, _)
\* The loop of _cleanup_literals over the pairs swapped to the end.
cleanup_removed(W, lit, pairs) ==
    IF pairs = <<>> THEN [W EXCEPT !.ok = TRUE]
    ELSE LET var == Head(pairs)[1]
             v   == Head(pairs)[2]
             old == W.s.literals[var][v]
         IN  IF ~ has_literal(W.s, var, v) THEN Fail(W, "cleanup:no_literal")
             ELSE Sure(IF old # lit
                       THEN Then(add_clause(W, <<0 - lit, old>>), LAMBDA W1 :
                              Then(add_clause(W1, <<0 - old, lit>>), LAMBDA W2 :
                                remove_literal(W2, var, old, v)))
                       ELSE [W EXCEPT !.ok = TRUE],
                       LAMBDA W3 :
                         IF ~ W3.ok THEN W3
                         ELSE cleanup_removed([W3 EXCEPT !.s = unset_literal(W3.s, var, v)],
                                              lit, Tail(pairs)))

\* _cleanup_literals that leaves the number of integrated facts as it is.
_cleanup_literals_mutant(W, lit) ==
    IF W.s.litmap[lit] = <<>> THEN [W EXCEPT !.ok = TRUE]
    ELSE LET variables == W.s.litmap[lit]
             kept  == SelectPairs(W.s, lit, variables, TRUE)
             gone  == SelectPairs(W.s, lit, variables, FALSE)
         IN  IF kept = <<>> THEN Fail(W, "cleanup:nothing_retained")
             ELSE Then(cleanup_removed(W, lit, gone),
                       LAMBDA W2 : [W2 EXCEPT !.s.litmap[lit] = kept])

\* State._cleanup_literals
_cleanup_literals(W, lit) ==
    IF W.s.litmap[lit] = <<>> THEN [W EXCEPT !.ok = TRUE]
    ELSE LET variables == W.s.litmap[lit]
             idx   == IF lit = TRUE_LIT THEN 1 ELSE 2
             done  == SubSeq(variables, 1, Min2(W.s.facts_integrated[idx], Len(variables)))
             num   == W.s.facts_integrated[idx] - Len(SelectPairs(W.s, lit, done, FALSE))
             kept  == SelectPairs(W.s, lit, variables, TRUE)
             gone  == SelectPairs(W.s, lit, variables, FALSE)
             W1    == [W EXCEPT !.s.facts_integrated[idx] = num]
         IN  IF kept = <<>> THEN Fail(W1, "cleanup:nothing_retained")
             ELSE Then(cleanup_removed(W1, lit, gone),
                       LAMBDA W2 : [W2 EXCEPT !.s.litmap[lit] = kept])

\* State.cleanup_literals
cleanup_literals(W) ==
    Then(_cleanup_literals([W EXCEPT !.s = update(W.s, W.h)], TRUE_LIT),
         LAMBDA W1 : _cleanup_literals(W1, 0 - TRUE_LIT))


(***************************************************************************)
(* ConstraintState.translate                                               *)
(***************************************************************************)
\* First and one-past-last value whose order literal enters the weight
\* constraint for the term co*var under the given slack.
translate_range(s, co, var, slack) ==
    LET lb == lower_bound(s, var)
        ub == upper_bound(s, var)
        v  == propagate_value(co, slack + co * (IF co > 0 THEN lb ELSE ub))
    IN  IF co > 0 THEN <<lb, Min2(v + 1, ub)>> ELSE <<Max2(v - 1, lb), ub>>

RECURSIVE _estimate_sum(_, _, _)
_estimate_sum(s, elements, slack) ==
    IF elements = <<>> THEN 0
    ELSE LET r == translate_range(s, Head(elements)[1], Head(elements)[2], slack)
         IN  (r[2] - r[1]) + _estimate_sum(s, Tail(elements), slack)

\* ConstraintState._estimate
_estimate(s, c) ==
    _estimate_sum(s, Cons[c].elements, rhs_of(s, c) - s.cstate[c].lower_bound)

RECURSIVE wlits_values(_, _, _, _, _)
\* for i in range(i, hi): wlits.append((+-get_literal(vs, i), abs(co)))
wlits_values(W, co, var, i, hi) ==
    IF i >= hi \/ W.err # "" THEN W
    ELSE Bind(get_literal(W, var, i), LAMBDA Wg :
           wlits_values(
             [Wg EXCEPT !.lbs = Append(@, IF co > 0 THEN <<0 - Wg.lit, co>>
                                          ELSE <<Wg.lit, 0 - co>>)],
             co, var, i + 1, hi))

RECURSIVE wlits_elements(_, _, _)
wlits_elements(W, elements, slack) ==
    IF elements = <<>> \/ W.err # "" THEN W
    ELSE LET co  == Head(elements)[1]
             var == Head(elements)[2]
             r   == translate_range(W.s, co, var, slack)
             v   == propagate_value(co, slack + co * (IF co > 0 THEN lower_bound(W.s, var)
                                                       ELSE upper_bound(W.s, var)))
         IN  IF co > 0 /\ v < lower_bound(W.s, var) THEN Fail(W, "translate:value_below_lower")
             ELSE IF co < 0 /\ v > upper_bound(W.s, var) THEN Fail(W, "translate:value_above_upper")
             ELSE wlits_elements(wlits_values(W, co, var, r[1], r[2]), Tail(elements), slack)

\* ConstraintState.translate: W.ok is ret, W.num is 1 when the constraint
\* was removed and 0 otherwise.
translate(W, c) ==
    LET cs    == W.s.cstate[c]
        rhs   == rhs_of(W.s, c)
        slack == rhs - cs.lower_bound
        clit  == Cons[c].literal
    IN  IF tagged(c) \/ Cons[c].kind = "distinct" THEN [W EXCEPT !.ok = TRUE, !.num = 0]
        ELSE IF is_false(W.h, clit) \/ cs.upper_bound <= rhs
        THEN [remove_constraint(W, c) EXCEPT !.ok = TRUE, !.num = 1]
        ELSE IF slack < 0 THEN Fail(W, "translate:negative_slack")
        ELSE IF _estimate(W.s, c) < TRANSLATE_LIMIT
        THEN Sure(wlits_elements([W EXCEPT !.lbs = <<>>], Cons[c].elements, slack), LAMBDA W1 :
               Sure(IF is_true(W1.h, clit) THEN [W1 EXCEPT !.lit = clit, !.ok = TRUE]
                    ELSE Sure(add_literal(W1), LAMBDA Wl :
                           [add_clause(Wl, <<0 - clit, Wl.lit>>) EXCEPT !.lit = Wl.lit,
                                                                       !.ok = TRUE]),
                    LAMBDA W2 :
                      Bind(add_weight_constraint(W2, W2.lit, W1.lbs, slack), LAMBDA W3 :
                        Sure(remove_constraint(W3, c), LAMBDA W4 :
                          [W4 EXCEPT !.ok = W3.ok, !.num = 1]))))
        ELSE [W EXCEPT !.ok = TRUE, !.num = 0]

RECURSIVE translate_list(_, _, _, _)
\* The inner loop of Propagator.init over the constraints of one literal.
translate_list(W, lit, cs, kept) ==
    IF cs = <<>> THEN [W EXCEPT !.s.l2c[lit] = kept, !.ok = TRUE]
    ELSE Then(translate(W, Head(cs)), LAMBDA W1 :
           translate_list(W1, lit, Tail(cs),
                          IF W1.num = 1 THEN kept ELSE Append(kept, Head(cs))))

RECURSIVE translate_all(_, _)
translate_all(W, lits) ==
    IF lits = <<>> THEN [W EXCEPT !.ok = TRUE]
    ELSE Then(translate_list(W, Head(lits), W.s.l2c[Head(lits)], <<>>),
              LAMBDA W1 : translate_all(W1, Tail(lits)))


(***************************************************************************)
(* Propagator facade and host steps                                        *)
(***************************************************************************)
World(s, h) ==
    [s |-> s, h |-> [h EXCEPT !.added = <<>>], p |-> propagator, t |-> threads,
     ok |-> TRUE, lit |-> 0, err |-> "", lbs |-> <<>>, num |-> 0]

RECURSIVE SelectSeq2(_, _)
\* The elements of sq that are in S, in order.
SelectSeq2(sq, S) ==
    IF sq = <<>> THEN <<>>
    ELSE (IF Head(sq) \in S THEN <<Head(sq)>> ELSE <<>>) \o SelectSeq2(Tail(sq), S)

(***************************************************************************)
(* Thread states                                                           *)
(***************************************************************************)
\* State.__init__; chk is no member of State: it keeps the first failure of
\* the assertions of _check_state, which the program does not evaluate.
State ==
    [vars |-> <<>>,
     lower |-> [v \in Vars |-> <<MIN_INT>>],
     upper |-> [v \in Vars |-> <<MAX_INT>>],
     literals |-> [v \in Vars |-> NoLiterals],
     litmap |-> [l \in Lits |-> <<>>],
     levels |-> <<Level(0)>>,
     v2cs |-> [v \in Vars |-> <<>>],
     l2c |-> [l \in Lits |-> <<>>],
     todo |-> <<>>,
     facts_integrated |-> <<0, 0>>,
     lerp_last |-> 0,
     trail_offset |-> 0,
     minimize_bound |-> <<>>,
     minimize_level |-> 0,
     cstate |-> <<>>,
     udiff |-> <<>>,
     ldiff |-> <<>>,
     chk |-> ""]

\* Mutation: the map from literals to order literals is shared as well.
SharedFields_mutant == {"l2c", "litmap"}

\* The objects a State shares with the State of thread 0: the lookup from
\* literals to constraints that Propagator._state hands to State.__init__.
\* Everything else copy_state builds from objects of the State itself.
SharedFields == {"l2c"}

\* Propagator._state for a thread that has no State yet.
_state(master) == [State EXCEPT !.l2c = master.l2c]

\* ConstraintState.copy and DistinctState.copy
cs_copy(cs) ==
    IF cs.kind = "distinct"
    THEN [DistinctState EXCEPT !.inactive_level = cs.inactive_level,
                               !.map_upper = cs.map_upper,
                               !.map_lower = cs.map_lower,
                               !.assigned = cs.assigned]
    ELSE [ConstraintState EXCEPT !.inactive_level = cs.inactive_level,
                                 !.lower_bound = cs.lower_bound,
                                 !.upper_bound = cs.upper_bound]

\* Level.copy_state
Level_copy_state(self, lvl) ==
    [self EXCEPT !.undo_lower = lvl.undo_lower,
                 !.undo_upper = lvl.undo_upper,
                 !.inactive = lvl.inactive,
                 !.removed_v2cs = lvl.removed_v2cs]

RECURSIVE add_missing_variables(_, _)
\* The first loop of State.copy_state.
add_missing_variables(s, vs) ==
    IF vs = <<>> THEN s
    ELSE add_missing_variables(add_variable(s, Head(vs)), Tail(vs))

RECURSIVE copy_pairs(_, _, _)
\* The inner loop of State.copy_state over the pairs of one literal.
copy_pairs(s, lit, pairs) ==
    IF pairs = <<>> THEN s
    ELSE copy_pairs(litmap_append(set_literal(s, Head(pairs)[1], Head(pairs)[2], lit),
                                  lit, Head(pairs)[1], Head(pairs)[2]),
                    lit, Tail(pairs))

RECURSIVE copy_litmap(_, _, _)
\* The loop of State.copy_state over the literals of the master.
copy_litmap(s, master, lits) ==
    IF lits = <<>> THEN s
    ELSE copy_litmap(copy_pairs(s, Head(lits), master.litmap[Head(lits)]), master, Tail(lits))

\* The assertions and lookups of State.copy_state and Level.copy_state that
\* can fail.
copy_state_error(self, master) ==
    IF self.ldiff # <<>> \/ master.ldiff # <<>> THEN "copy_state:ldiff"
    ELSE IF self.udiff # <<>> \/ master.udiff # <<>> THEN "copy_state:udiff"
    ELSE IF \E k \in 1..Len(self.vars) : k > Len(master.vars) \/ self.vars[k] # master.vars[k]
    THEN "copy_state:var"
    ELSE IF \E v \in Vars : \E k \in 1..Len(master.v2cs[v]) :
                master.v2cs[v][k][2] \notin DOMAIN master.cstate
    THEN "copy_state:v2cs"
    ELSE IF level(self).level # level(master).level THEN "copy_state:level"
    ELSE IF \E k \in 1..Len(level(master).inactive) :
                level(master).inactive[k] \notin DOMAIN master.cstate
    THEN "copy_state:inactive"
    ELSE IF \E k \in 1..Len(master.todo) : master.todo[k] \notin DOMAIN master.cstate
    THEN "copy_state:todo"
    ELSE ""

\* copy_state that does not clear the litmap of the copy first.
copy_state_mutant(self, master) ==
    LET s1 == add_missing_variables([self EXCEPT !.facts_integrated = master.facts_integrated],
                                    SubSeq(master.vars, Len(self.vars) + 1, Len(master.vars)))
        s2 == [s1 EXCEPT
                 !.lower = [v \in Vars |-> IF InSeq(s1.vars, v) THEN <<MIN_INT>> ELSE @[v]],
                 !.upper = [v \in Vars |-> IF InSeq(s1.vars, v) THEN <<MAX_INT>> ELSE @[v]],
                 !.literals = [v \in Vars |-> IF InSeq(s1.vars, v) THEN NoLiterals ELSE @[v]]]
        s3 == copy_litmap(s2, master, SortedSeq({l \in Lits : master.litmap[l] # <<>>}))
    IN  [s3 EXCEPT
           !.lower = [v \in Vars |-> IF InSeq(s1.vars, v)
                                     THEN [@[v] EXCEPT ![Len(@[v])] = lower_bound(master, v)]
                                     ELSE @[v]],
           !.upper = [v \in Vars |-> IF InSeq(s1.vars, v)
                                     THEN [@[v] EXCEPT ![Len(@[v])] = upper_bound(master, v)]
                                     ELSE @[v]],
           !.cstate = [c \in (DOMAIN @) \cup (DOMAIN master.cstate) |->
                          IF c \in DOMAIN master.cstate THEN cs_copy(master.cstate[c])
                          ELSE @[c]],
           !.v2cs = master.v2cs,
           !.levels[Len(s3.levels)] = Level_copy_state(@, level(master)),
           !.todo = TodoExtend(@, master.todo)]

\* State.copy_state
copy_state(self, master) ==
    LET s1 == add_missing_variables([self EXCEPT !.facts_integrated = master.facts_integrated],
                                    SubSeq(master.vars, Len(self.vars) + 1, Len(master.vars)))
        s2 == [s1 EXCEPT
                 !.lower = [v \in Vars |-> IF InSeq(s1.vars, v) THEN <<MIN_INT>> ELSE @[v]],
                 !.upper = [v \in Vars |-> IF InSeq(s1.vars, v) THEN <<MAX_INT>> ELSE @[v]],
                 !.literals = [v \in Vars |-> IF InSeq(s1.vars, v) THEN NoLiterals ELSE @[v]],
                 !.litmap = [l \in Lits |-> <<>>]]
        s3 == copy_litmap(s2, master, SortedSeq({l \in Lits : master.litmap[l] # <<>>}))
    IN  [s3 EXCEPT
           !.lower = [v \in Vars |-> IF InSeq(s1.vars, v)
                                     THEN [@[v] EXCEPT ![Len(@[v])] = lower_bound(master, v)]
                                     ELSE @[v]],
           !.upper = [v \in Vars |-> IF InSeq(s1.vars, v)
                                     THEN [@[v] EXCEPT ![Len(@[v])] = upper_bound(master, v)]
                                     ELSE @[v]],
           !.cstate = [c \in (DOMAIN @) \cup (DOMAIN master.cstate) |->
                          IF c \in DOMAIN master.cstate THEN cs_copy(master.cstate[c])
                          ELSE @[c]],
           !.v2cs = master.v2cs,
           !.levels[Len(s3.levels)] = Level_copy_state(@, level(master)),
           !.todo = TodoExtend(@, master.todo)]

RECURSIVE update_bounds_upper(_, _, _)
\* The first loop of State.update_bounds.
update_bounds_upper(W, other, pairs) ==
    IF pairs = <<>> THEN [W EXCEPT !.ok = TRUE]
    ELSE LET var == Head(pairs)[1]
         IN  IF upper_bound(other, var) < upper_bound(W.s, var)
             THEN Then(update_literal(W, var, upper_bound(other, var), 1),
                       LAMBDA W1 : update_bounds_upper(W1, other, Tail(pairs)))
             ELSE update_bounds_upper(W, other, Tail(pairs))

RECURSIVE update_bounds_lower(_, _, _)
\* The second loop of State.update_bounds.
update_bounds_lower(W, other, pairs) ==
    IF pairs = <<>> THEN [W EXCEPT !.ok = TRUE]
    ELSE LET var == Head(pairs)[1]
         IN  IF lower_bound(W.s, var) < lower_bound(other, var)
             THEN Then(update_literal(W, var, lower_bound(other, var) - 1, -1),
                       LAMBDA W1 : update_bounds_lower(W1, other, Tail(pairs)))
             ELSE update_bounds_lower(W, other, Tail(pairs))

\* State.update_bounds
update_bounds(W, other) ==
    Then(update_bounds_upper(W, other, other.litmap[TRUE_LIT]), LAMBDA W1 :
      Then(update_bounds_lower(W1, other, other.litmap[0 - TRUE_LIT]), LAMBDA W2 :
        _update_domain(W2, TRUE_LIT)))

RECURSIVE gather_bounds(_, _)
\* Propagator.init: the bounds of the other states are gathered in the
\* master.
gather_bounds(W, k) ==
    IF k > Len(W.t) THEN [W EXCEPT !.ok = TRUE]
    ELSE Then(update_bounds(W, W.t[k].s), LAMBDA W1 : gather_bounds(W1, k + 1))

\* Propagator.init: the states beyond the number of threads are deleted,
\* the others become copies of the master.
copy_states(W, n) ==
    LET old(i) == IF i <= Len(W.t) THEN W.t[i].s ELSE _state(W.s)
        errs   == {copy_state_error(old(i), W.s) : i \in 1..(n - 1)} \ {""}
    IN  IF errs # {} THEN Fail(W, CHOOSE e \in errs : TRUE)
        ELSE [W EXCEPT !.t = [i \in 1..(n - 1) |->
                                 [s |-> copy_state(old(i), W.s), h |-> W.h]]]

\* Propagator.init up to the call of simplify: the minimize constraint is
\* taken out, the states are updated, the theory atoms stmts of the step are
\* parsed and the bounds of the other states are gathered.
init_builder(W, stmts) ==
    Sure(remove_minimize(W), LAMBDA W0 :
      Sure(parse_theory(
             [W0 EXCEPT !.s = update(W0.s, W0.h),
                        !.t = [i \in DOMAIN W0.t |->
                                  [W0.t[i] EXCEPT !.s = update(W0.t[i].s, W0.h)]],
                        !.h.mode = "builder", !.h.fresh = {},
                        !.ok = TRUE], stmts),
           LAMBDA W1 :
             Then(finalize([W1 EXCEPT !.h.mode = "init"]), LAMBDA Wf :
               gather_bounds(Wf, 1))))

\* Propagator.init that adds the minimize constraint before it simplifies
\* and translates.
Propagator_init_mutant(W, stmts, n) ==
    Bind(Sure(init_builder(W, stmts), LAMBDA Wb :
           Then(Wb, LAMBDA W2 :
             Then(simplify(IF W2.p.builder = 0 THEN W2
                           ELSE [add_minimize(W2, W2.p.builder) EXCEPT !.ok = TRUE]),
                  LAMBDA W3 :
               Then(cleanup_literals(W3), LAMBDA W4 :
                 Then(translate_all(W4, SortedSeq({l \in Lits : W4.s.l2c[l] # <<>>})),
                      LAMBDA W5 : copy_states(W5, n)))))),
         LAMBDA W6 : [W6 EXCEPT !.p.builder = 0])

\* Propagator.init for the theory atoms stmts of the step.
Propagator_init(W, stmts, n) ==
    Bind(Sure(init_builder(W, stmts), LAMBDA Wb :
           Then(Wb, LAMBDA W2 :
             Then(simplify(W2), LAMBDA W3 :
               Then(cleanup_literals(W3), LAMBDA W4 :
                 Then(translate_all(W4, SortedSeq({l \in Lits : W4.s.l2c[l] # <<>>})),
                      LAMBDA W5 :
                        copy_states(
                          IF W5.p.builder = 0 THEN W5
                          ELSE [add_minimize(W5, W5.p.builder) EXCEPT !.ok = TRUE],
                          n)))))),
         LAMBDA W6 : [W6 EXCEPT !.p.builder = 0])

\* The solver starts a solve call: watched literals that are already true
\* are delivered to the first propagate call. With an objective the solver
\* assumes the step literal of the call (assume), which tagged clauses
\* depend on.
StartSolve(h, assume) ==
    [h EXCEPT !.mode = "control",
              !.assume = assume,
              !.used = IF assume = 0 THEN @ ELSE @ \cup {assume},
              !.queue = SelectSeq2(h.trail, h.fresh),
              !.fix = FALSE]

\* The solver backtracks one decision level and propagates again.
Backtrack(h) ==
    LET gone == {v \in HostVars : h.val[v] # 0 /\ h.lvl[v] = h.dl}
        h1   == [h EXCEPT !.val = [v \in HostVars |-> IF v \in gone THEN 0 ELSE @[v]],
                          !.lvl = [v \in HostVars |-> IF v \in gone THEN 0 ELSE @[v]],
                          !.trail = SubSeq(@, 1, Last(h.starts)),
                          !.starts = Front(@),
                          !.dl = @ - 1,
                          !.queue = <<>>,
                          !.conflict = FALSE,
                          !.fix = FALSE]
    IN  Simplified(UnitPropagate(h1))

\* The solver opens a decision level with literal l.
DecideLit(h, l) ==
    Simplified(UnitPropagate(HostAssign(
        [h EXCEPT !.dl = @ + 1, !.starts = Append(@, Len(h.trail)), !.fix = FALSE], l)))

\* The solve call ends on level 0: literals local to the step disappear
\* together with the clauses over them.
EndSolve(h, k) ==
    [h EXCEPT !.val = [v \in HostVars |-> IF v \in h.local THEN 0
                                          ELSE IF v = StepVar(k) THEN -1 ELSE @[v]],
              !.used = (@ \ h.local) \cup {StepVar(k)},
              !.trail = Append(SelectSeq2(@, {l \in Lits : Abs(l) \notin h.local}),
                               0 - StepVar(k)),
              !.clauses = {c \in @ \ h.tagged : \A l \in c : Abs(l) \notin h.local},
              !.tagged = {},
              !.assume = 0,
              !.watches = {l \in @ : Abs(l) \notin h.local},
              !.local = {},
              !.queue = <<>>,
              !.conflict = FALSE,
              !.fix = FALSE,
              !.mode = "init"]


(***************************************************************************)
(* The state machine                                                       *)
(***************************************************************************)
\* The solver before the first solve call: the true literal heads the
\* trail, the theory atoms are free.
Host ==
    [val |-> [v \in HostVars |-> IF v = TRUE_LIT THEN 1 ELSE 0],
     lvl |-> [v \in HostVars |-> 0],
     used |-> {TRUE_LIT, AtomA, AtomB},
     trail |-> <<TRUE_LIT>>,
     starts |-> <<>>,
     dl |-> 0,
     clauses |-> {},
     tagged |-> {},
     assume |-> 0,
     wcs |-> {},
     watches |-> {},
     fresh |-> {},
     queue |-> <<>>,
     pending |-> <<>>,
     added |-> <<>>,
     local |-> {},
     conflict |-> FALSE,
     fix |-> FALSE,
     mode |-> "init"]

\* Propagator.__init__: no minimize constraint and no bound for it; builder
\* is the minimize constraint of the CSPBuilder while init runs.
Propagator == [minimize |-> 0, minimize_bound |-> <<>>, builder |-> 0]

\* No theory atom is being parsed.
NoNorm == [done |-> TRUE]

NoTerm == [done |-> TRUE]

AuxInit == norm = NoNorm /\ term = NoTerm

Init ==
    /\ prog \in 1..Len(MainPrograms)
    /\ state = State
    /\ host = Host
    /\ ret = TRUE
    /\ last = "new"
    /\ err = ""
    /\ step = 0
    /\ propagator = Propagator
    /\ threads = <<>>
    /\ AuxInit

Finish(W, name) ==
    /\ state' = W.s
    /\ host' = W.h
    /\ ret' = W.ok
    /\ err' = W.err
    /\ last' = name
    /\ propagator' = W.p
    /\ threads' = W.t

\* Propagator.init at the start of a solve call, then the solver starts.
PInit ==
    /\ err = "" /\ host.mode = "init" /\ ~ host.conflict
    /\ step < Len(Programs[prog])
    /\ LET Start(W) ==
               Bind(IF W.ok /\ W.err = ""
                    THEN StartSolve(W.h, IF has_minimize(W.p) THEN StepVar(step + 1) ELSE 0)
                    ELSE [W.h EXCEPT !.conflict = TRUE],
                    LAMBDA h : Finish([W EXCEPT !.h = h,
                                                !.t = [i \in DOMAIN W.t |->
                                                          [W.t[i] EXCEPT !.h = h]]],
                                      "init"))
       IN  Start(Propagator_init(World(state, host), Programs[prog][step + 1],
                                 number_of_threads(prog)))
    /\ step' = step + 1
    /\ UNCHANGED prog
    /\ UNCHANGED aux

\* Propagator.propagate with the queued watched literals.
Propagate ==
    /\ err = "" /\ host.mode = "control" /\ ~ host.conflict
    /\ host.queue # <<>>
    /\ Finish(propagate(World(state, [host EXCEPT !.queue = <<>>, !.fix = FALSE]), host.queue),
              "propagate")
    /\ UNCHANGED <<prog, step>>
    /\ UNCHANGED aux

\* Propagator.check on a propagation fixpoint.
Check ==
    /\ err = "" /\ host.mode = "control" /\ ~ host.conflict
    /\ host.queue = <<>> /\ ~ host.fix
    /\ LET Fixpoint(W) ==
               Finish([W EXCEPT !.h.fix = (W.h.trail = host.trail /\ ~ W.h.conflict)], "check")
       IN  Fixpoint(Propagator_check(World(state, host)))
    /\ UNCHANGED <<prog, step>>
    /\ UNCHANGED aux

\* The solver decides on the free variable with the smallest number, in
\* either phase; the step literal it assumes comes first.
Decide ==
    /\ err = "" /\ host.mode = "control" /\ ~ host.conflict
    /\ host.queue = <<>> /\ host.fix
    /\ host.dl < MaxLevel
    /\ \E v \in host.used : \E l \in {v, 0 - v} :
         /\ host.val[v] = 0
         /\ IF host.assume # 0 /\ host.val[host.assume] = 0
            THEN l = host.assume
            ELSE \A u \in host.used : host.val[u] = 0 => v <= u
         /\ host' = DecideLit(host, l)
    /\ last' = "decide"
    /\ UNCHANGED <<state, ret, err, prog, step, propagator, threads>>
    /\ UNCHANGED aux

\* The solver backtracks one level; Propagator.undo runs if the level was
\* propagated.
Undo ==
    /\ err = "" /\ host.mode = "control"
    /\ host.dl > 0
    /\ IF level(state).level = host.dl
       THEN LET Back(W) == Finish([W EXCEPT !.h = Backtrack(W.h)], "undo")
            IN  Back(undo(World(state, host)))
       ELSE /\ host' = Backtrack(host)
            /\ last' = "backtrack"
            /\ UNCHANGED <<state, ret, err, propagator, threads>>
    /\ UNCHANGED <<prog, step>>
    /\ UNCHANGED aux

\* The solve call ends: every solver is back on level 0, and the solvers
\* of the other threads are given up.
EndStep ==
    /\ err = "" /\ host.mode = "control" /\ ~ host.conflict
    /\ host.dl = 0
    /\ step < Len(Programs[prog])
    /\ \A i \in DOMAIN threads : threads[i].h.dl = 0
    /\ host' = EndSolve(host, step)
    /\ threads' = [i \in DOMAIN threads |-> [threads[i] EXCEPT !.h = host']]
    /\ last' = "end"
    /\ UNCHANGED <<state, ret, err, prog, step, propagator>>
    /\ UNCHANGED aux

Next == PInit \/ Propagate \/ Check \/ Decide \/ Undo \/ EndStep

Spec == Init /\ [][Next]_vars

\* Propagator.init alone, over the programs that exercise translate.
InitTranslate ==
    /\ prog \in (Len(MainPrograms) + 1)..(Len(MainPrograms) + NumTransPrograms)
    /\ state = State
    /\ host = Host
    /\ ret = TRUE
    /\ last = "new"
    /\ err = ""
    /\ step = 0
    /\ propagator = Propagator
    /\ threads = <<>>
    /\ AuxInit

SpecTranslate == InitTranslate /\ [][PInit]_vars

\* The bounds the application offers for the objective.
MaxMinimizeBound == 0

MinimizeBounds == (0 - MaxMinimizeBound - 1)..MaxMinimizeBound

\* Propagator.update_minimize, called by the application when the solver
\* reports a model.
UpdateMinimize ==
    /\ err = "" /\ host.mode = "control" /\ ~ host.conflict
    /\ host.queue = <<>> /\ host.fix /\ is_total(host)
    /\ has_minimize(propagator) /\ last # "update_minimize"
    /\ \E bound \in MinimizeBounds :
         propagator' = [propagator EXCEPT !.minimize_bound = <<bound>>]
    /\ last' = "update_minimize"
    /\ UNCHANGED <<state, host, ret, err, prog, step, threads>>
    /\ UNCHANGED aux

InitMinimize ==
    /\ prog \in FirstMinimizeProgram..(FirstThreadProgram - 1)
    /\ state = State
    /\ host = Host
    /\ ret = TRUE
    /\ last = "new"
    /\ err = ""
    /\ step = 0
    /\ propagator = Propagator
    /\ threads = <<>>
    /\ AuxInit

NextMinimize ==
    PInit \/ Propagate \/ Check \/ Decide \/ Undo \/ EndStep \/ UpdateMinimize

\* Branch-and-bound optimisation over the programs with an objective.
SpecMinimize == InitMinimize /\ [][NextMinimize]_vars

\* The State of thread i: its own objects and the ones it shares.
ThreadState(i) ==
    [f \in DOMAIN state |-> IF f \in SharedFields THEN state[f] ELSE threads[i].s[f]]

\* A call for thread i returns: what it wrote to shared objects shows in the
\* State of thread 0.
ThreadFinish(i, W, name) ==
    /\ threads' = [threads EXCEPT ![i] = [s |-> W.s, h |-> W.h]]
    /\ state' = [f \in DOMAIN state |-> IF f \in SharedFields THEN W.s[f] ELSE state[f]]
    /\ ret' = W.ok
    /\ err' = W.err
    /\ last' = name
    /\ propagator' = W.p
    /\ UNCHANGED <<host, prog, step>>
    /\ UNCHANGED aux

\* Propagator.propagate for thread i.
ThreadPropagate ==
    \E i \in DOMAIN threads :
        LET h == threads[i].h
        IN  /\ err = "" /\ h.mode = "control" /\ ~ h.conflict
            /\ h.queue # <<>>
            /\ ThreadFinish(i, propagate(World(ThreadState(i),
                                               [h EXCEPT !.queue = <<>>, !.fix = FALSE]),
                                         h.queue),
                            "thread_propagate")

\* Propagator.check for thread i.
ThreadCheck ==
    \E i \in DOMAIN threads :
        LET h == threads[i].h
            Fixpoint(W) ==
                ThreadFinish(i, [W EXCEPT !.h.fix = (W.h.trail = h.trail /\ ~ W.h.conflict)],
                             "thread_check")
        IN  /\ err = "" /\ h.mode = "control" /\ ~ h.conflict
            /\ h.queue = <<>> /\ ~ h.fix
            /\ Fixpoint(Propagator_check(World(ThreadState(i), h)))

\* The solver of thread i decides.
ThreadDecide ==
    \E i \in DOMAIN threads :
        LET h == threads[i].h
        IN  /\ err = "" /\ h.mode = "control" /\ ~ h.conflict
            /\ h.queue = <<>> /\ h.fix
            /\ h.dl < MaxLevel
            /\ \E v \in h.used : \E l \in {v, 0 - v} :
                 /\ h.val[v] = 0
                 /\ IF h.assume # 0 /\ h.val[h.assume] = 0
                    THEN l = h.assume
                    ELSE \A u \in h.used : h.val[u] = 0 => v <= u
                 /\ threads' = [threads EXCEPT ![i].h = DecideLit(h, l)]
            /\ last' = "thread_decide"
            /\ UNCHANGED <<state, host, ret, err, prog, step, propagator>>
            /\ UNCHANGED aux

\* The solver of thread i backtracks one level; Propagator.undo runs for the
\* thread if the level was propagated.
ThreadUndo ==
    \E i \in DOMAIN threads :
        LET h == threads[i].h
        IN  /\ err = "" /\ h.mode = "control"
            /\ h.dl > 0
            /\ IF level(threads[i].s).level = h.dl
               THEN LET Back(W) == ThreadFinish(i, [W EXCEPT !.h = Backtrack(W.h)],
                                                "thread_undo")
                    IN  Back(undo(World(ThreadState(i), h)))
               ELSE /\ threads' = [threads EXCEPT ![i].h = Backtrack(h)]
                    /\ last' = "thread_backtrack"
                    /\ UNCHANGED <<state, host, ret, err, prog, step, propagator>>
                    /\ UNCHANGED aux

InitThreads ==
    /\ prog \in FirstThreadProgram..(FirstOrderProgram - 1)
    /\ state = State
    /\ host = Host
    /\ ret = TRUE
    /\ last = "new"
    /\ err = ""
    /\ step = 0
    /\ propagator = Propagator
    /\ threads = <<>>
    /\ AuxInit

NextThreads ==
    \/ PInit \/ Propagate \/ Check \/ EndStep
    \/ ThreadPropagate \/ ThreadCheck \/ ThreadDecide \/ ThreadUndo

\* Two solver threads work on the same program: thread 0 propagates the top
\* level while the other thread searches.
SpecThreads == InitThreads /\ [][NextThreads]_vars

\* No assertion of the program fails.
TypeOK == err = ""

(***************************************************************************)
(* Properties                                                              *)
(***************************************************************************)
\* The solver may call Propagator.check: it is solving, has no conflict and
\* has delivered every watched literal.
CanCheck == err = "" /\ host.mode = "control" /\ ~ host.conflict /\ host.queue = <<>>

AllAssigned(s) == \A i \in 1..Len(s.vars) : is_assigned(s, s.vars[i])

\* The constraints whose activation literal is true.
ActiveCons(s, h) ==
    UNION {{s.l2c[l][i] : i \in 1..Len(s.l2c[l])} : l \in {k \in Lits : is_true(h, k)}}

\* The constraint holds of the lower bounds of its variables.
Satisfied(s, c) ==
    IF Cons[c].kind = "distinct"
    THEN \A e, f \in 1..Len(Cons[c].elements) :
             e # f => Cons[c].elements[e][1] + SumTerms(Cons[c].elements[e][2], LowerOf(s), LowerOf(s))
                      # Cons[c].elements[f][1] + SumTerms(Cons[c].elements[f][2], LowerOf(s), LowerOf(s))
    ELSE SumTerms(Cons[c].elements, LowerOf(s), LowerOf(s)) <= Cons[c].rhs

\* Propagator.check gets as far as the CHECK_SOLUTION pass of check_full.
SolutionChecked(W) ==
    /\ W.ok /\ W.err = ""
    /\ Cardinality(W.h.used) = Cardinality(host.used)
    /\ is_total(W.h)
    /\ AllAssigned(W.s)

\* C1: whenever check_full runs on a total assignment and finds every
\* variable assigned, no assertion of its CHECK_SOLUTION pass fails and every
\* sum and distinct constraint whose activation literal is true holds of the
\* lower bounds.
C1_Soundness ==
    CanCheck =>
        LET W == check(World(state, host))
        IN  SolutionChecked(W) =>
                /\ SolutionErrors(W.s, W.h) = {}
                /\ \A c \in ActiveCons(W.s, W.h) : Satisfied(W.s, c)

\* A total assignment after check_full has run on it, with both variables
\* assigned and a constraint whose activation literal was decided true.
C1_Witness ==
    /\ last = "check" /\ ret /\ host.fix
    /\ is_total(host) /\ AllAssigned(state) /\ Len(state.vars) = 2
    /\ \E c \in ActiveCons(state, host) : ~ is_fixed(host, Cons[c].literal)

\* The bounds of every variable agree with the order literals the host has
\* assigned, those in the sequence pending excepted: v <= k true gives
\* ub(v) <= k, v <= k false gives lb(v) >= k+1.
OrderConsistent(s, h, pending) ==
    \A var \in Vars : \A k \in DOMAIN s.literals[var] :
        /\ (is_true(h, s.literals[var][k]) /\ ~ InSeq(pending, s.literals[var][k]))
               => upper_bound(s, var) <= k
        /\ (is_false(h, s.literals[var][k]) /\ ~ InSeq(pending, 0 - s.literals[var][k]))
               => lower_bound(s, var) >= k + 1

\* C2 as stated: after State.propagate has processed the change literals,
\* every order literal v <= k that is true in the host has ub(v) <= k and
\* every one that is false has lb(v) >= k+1.
C2_OrderConsistency ==
    (last = "propagate" /\ ret) => OrderConsistent(state, host, <<>>)

\* C2, amended: after State.propagate has processed the change literals,
\* every order literal v <= k that is true in the host and not still waiting
\* to be delivered to propagate has ub(v) <= k, and every such literal that is
\* false has lb(v) >= k+1.
C2_Delivered ==
    (last = "propagate" /\ ret) => OrderConsistent(state, host, host.queue)

\* State.propagate has processed an order literal that is true and one that
\* is false above level 0 while the clauses it added made the host assign a
\* further watched literal.
C2_Witness ==
    /\ last = "propagate" /\ ret /\ host.dl > 0 /\ host.queue # <<>>
    /\ \E var \in Vars : \E k \in DOMAIN state.literals[var] :
           /\ is_true(host, state.literals[var][k])
           /\ ~ is_fixed(host, state.literals[var][k])
           /\ ~ InSeq(host.queue, state.literals[var][k])
    /\ \E var \in Vars : \E k \in DOMAIN state.literals[var] :
           /\ is_false(host, state.literals[var][k])
           /\ ~ is_fixed(host, state.literals[var][k])
           /\ ~ InSeq(host.queue, 0 - state.literals[var][k])

\* Every stack of bounds tightens from the bottom to the top: the bound of
\* a level is at least as tight as the snapshot kept of the level below.
StacksTighten(s) ==
    \A var \in Vars :
        /\ \A i \in 1..(Len(s.lower[var]) - 1) : s.lower[var][i] <= s.lower[var][i + 1]
        /\ \A i \in 1..(Len(s.upper[var]) - 1) : s.upper[var][i] >= s.upper[var][i + 1]

\* C3: every propagate and check step only raises the current lower bound of
\* a variable and only lowers its current upper bound, and leaves every bound
\* at least as tight as the snapshot of the level below.
C3_Monotone ==
    [][(last' \in {"propagate", "check"}) =>
          /\ \A var \in Vars :
                 /\ lower_bound(state', var) >= lower_bound(state, var)
                 /\ upper_bound(state', var) <= upper_bound(state, var)
          /\ StacksTighten(state')]_vars

\* A propagate or check step above level 0 that left a lower and an upper
\* bound strictly tighter than the snapshot below.
C3_Witness ==
    /\ last \in {"propagate", "check"} /\ host.dl > 0
    /\ \E var \in Vars : /\ Len(state.lower[var]) > 1
                          /\ Last(state.lower[var]) > state.lower[var][Len(state.lower[var]) - 1]
    /\ \E var \in Vars : /\ Len(state.upper[var]) > 1
                          /\ Last(state.upper[var]) < state.upper[var][Len(state.upper[var]) - 1]

\* The solver may call Propagator.propagate on a decision level that has
\* no frame of its own yet.
CanPropagateNewLevel ==
    /\ err = "" /\ host.mode = "control" /\ ~ host.conflict
    /\ host.queue # <<>>
    /\ level(state).level < host.dl

\* The world State.propagate is called in by the action Propagate.
PropagateWorld == World(state, [host EXCEPT !.queue = <<>>, !.fix = FALSE])

\* The cached bounds and the inactive level of every constraint state.
Caches(s) ==
    [c \in DOMAIN s.cstate |->
        IF s.cstate[c].kind = "sum"
        THEN <<s.cstate[c].lower_bound, s.cstate[c].upper_bound, s.cstate[c].inactive_level>>
        ELSE <<s.cstate[c].inactive_level>>]

\* C4: for a state whose top level is below the decision level of the host,
\* propagate(changes) followed by undo() restores every stack of bounds,
\* the lower_bound, upper_bound and inactive_level of every constraint state
\* and every v2cs list, element by element in the same order.
C4_PropagateUndo ==
    CanPropagateNewLevel =>
        LET W == undo(propagate(PropagateWorld, host.queue))
        IN  /\ W.err = ""
            /\ W.s.lower = state.lower
            /\ W.s.upper = state.upper
            /\ Caches(W.s) = Caches(state)
            /\ W.s.v2cs = state.v2cs

\* A propagate call on a new level that changes a lower and an upper bound of
\* variables that occur in constraints, followed by the undo of the level.
C4_Witness ==
    /\ CanPropagateNewLevel
    /\ LET W == propagate(PropagateWorld, host.queue)
       IN  /\ \E var \in Vars : W.s.lower[var] # state.lower[var] /\ state.v2cs[var] # <<>>
           /\ \E var \in Vars : W.s.upper[var] # state.upper[var] /\ state.v2cs[var] # <<>>
           /\ undo(W).s.levels = state.levels

\* The cached bounds of every sum constraint state.
SumCaches(s) ==
    [c \in {k \in DOMAIN s.cstate : s.cstate[k].kind = "sum"} |->
        <<s.cstate[c].lower_bound, s.cstate[c].upper_bound>>]

\* C5: after propagate(changes); check(); undo() on a new decision level the
\* bounds of the variables and the cached bounds of the sum constraints equal
\* their values before propagate, also for constraints that check detached
\* from v2cs or marked inactive on the level and for the bound changes check
\* had pushed into the caches.
C5_PropagateCheckUndo ==
    CanPropagateNewLevel =>
        LET W1 == propagate(PropagateWorld, host.queue)
            W3 == undo(check(W1))
        IN  W1.ok =>
                /\ W3.err = ""
                /\ W3.s.lower = state.lower
                /\ W3.s.upper = state.upper
                /\ SumCaches(W3.s) = SumCaches(state)

\* A round trip in which check pushes bound changes into the caches, marks a
\* constraint inactive and detaches a constraint from v2cs.
C5_Witness ==
    /\ CanPropagateNewLevel
    /\ LET W1 == propagate(PropagateWorld, host.queue)
           W2 == check(W1)
       IN  /\ W1.ok
           /\ SumCaches(W2.s) # SumCaches(state)
           /\ level(W2.s).inactive # <<>>
           /\ level(W2.s).removed_v2cs # <<>>
           /\ undo(W2).s.levels = state.levels

\* C6: when check has returned true and is called again with nothing in
\* between, the second call returns true, leaves the bounds, the constraint
\* states, litmap, the todo queue and the facts-integrated counters unchanged
\* and adds no clause and no literal.
C6_CheckIdempotent ==
    (last = "check" /\ ret /\ err = "" /\ ~ host.conflict) =>
        LET W == check(World(state, host))
        IN  /\ W.ok /\ W.err = ""
            /\ W.s.lower = state.lower
            /\ W.s.upper = state.upper
            /\ W.s.cstate = state.cstate
            /\ W.s.litmap = state.litmap
            /\ W.s.todo = state.todo
            /\ W.s.facts_integrated = state.facts_integrated
            /\ W.h.added = <<>>
            /\ W.h.clauses = host.clauses
            /\ W.h.used = host.used

\* A check call above level 0 that returned true after it had pushed bound
\* changes into the caches and added a clause.
C6_Witness ==
    /\ last = "check" /\ ret /\ err = "" /\ ~ host.conflict
    /\ host.dl > 0 /\ level(state).level = host.dl
    /\ host.added # <<>>
    /\ \E var \in Vars : Len(state.lower[var]) > 1 /\ state.v2cs[var] # <<>>

\* The sum constraints that are not marked inactive, whose activation
\* literal is true and whose cached lower bound exceeds the right-hand side.
Violated(s, h) ==
    {c \in DOMAIN s.cstate :
        /\ s.cstate[c].kind = "sum"
        /\ ~ marked_inactive(s.cstate[c])
        /\ is_true(h, Cons[c].literal)
        /\ s.cstate[c].lower_bound > rhs_of(s, c)}

\* The state check propagates the constraints in: the bound changes that
\* propagate recorded are pushed into the cached bounds.
Pushed == update_bounds_of_constraints(integrate_facts(World(state, host))).s

\* C7 (State.propagate only records bound changes; check pushes them into
\* the cached bounds before it propagates the constraints, and the cached
\* bounds are read at that point): if, with the bound changes recorded by
\* propagate pushed into the caches, some sum constraint that is not marked
\* inactive and whose activation literal is true has a cached lower_bound
\* above its rhs, then check returns false, and the clause it added last is
\* the reason clause of such a constraint and has only literals that are
\* false.
C7_ConflictDetected ==
    (CanCheck /\ Violated(Pushed, host) # {}) =>
        LET W == check(World(state, host))
        IN  /\ ~ W.ok /\ W.err = ""
            /\ W.h.added # <<>>
            /\ Last(W.h.added).falsified
            /\ \E c \in Violated(Pushed, host) :
                   InSeq(Last(W.h.added).clause, 0 - Cons[c].literal)

\* Check has returned false on a constraint whose activation literal was
\* decided true and whose lower bound the last propagate call raised above
\* its rhs.
C7_Witness ==
    /\ last = "check" /\ ~ ret /\ err = "" /\ host.conflict
    /\ host.added # <<>> /\ Last(host.added).falsified
    /\ \E c \in DOMAIN state.cstate :
           /\ state.cstate[c].kind = "sum"
           /\ is_true(host, Cons[c].literal) /\ ~ is_fixed(host, Cons[c].literal)
           /\ state.cstate[c].lower_bound > rhs_of(state, c)
           /\ InSeq(Last(host.added).clause, 0 - Cons[c].literal)

\* Lower and upper bound of term e of the distinct constraint c under the
\* current bounds of the variables.
TermLower(s, c, e) ==
    Cons[c].elements[e][1] + SumTerms(Cons[c].elements[e][2], LowerOf(s), UpperOf(s))

TermUpper(s, c, e) ==
    Cons[c].elements[e][1] + SumTerms(Cons[c].elements[e][2], UpperOf(s), LowerOf(s))

\* The distinct constraints with a true activation literal and two terms
\* that are both assigned to the same value.
Clashing(s, h) ==
    {c \in DOMAIN s.cstate :
        /\ Cons[c].kind = "distinct"
        /\ is_true(h, Cons[c].literal)
        /\ \E e, f \in 1..Len(Cons[c].elements) :
               /\ e # f
               /\ TermLower(s, c, e) = TermUpper(s, c, e)
               /\ TermLower(s, c, f) = TermUpper(s, c, f)
               /\ TermLower(s, c, e) = TermLower(s, c, f)}

\* C8: if the activation literal of a distinct constraint is true and two of
\* its terms are both assigned to the same value under the current bounds,
\* then check returns false.
C8_DistinctSound ==
    (CanCheck /\ Clashing(state, host) # {}) => ~ check(World(state, host)).ok

\* Check has returned false on a distinct constraint whose activation
\* literal was decided true and two of whose terms are assigned to the same
\* value above level 0.
C8_Witness ==
    /\ last = "check" /\ ~ ret /\ err = "" /\ host.dl > 0
    /\ \E c \in Clashing(state, host) : ~ is_fixed(host, Cons[c].literal)

\* The sum constraint of a program that exercises translate.
TransId == Last(Programs[prog][1])

\* The assignments of values to the variables within their current bounds.
Valuations(s) ==
    {val \in [Vars -> MIN_INT..MAX_INT] :
        \A var \in Vars : lower_bound(s, var) <= val[var] /\ val[var] <= upper_bound(s, var)}

\* Truth of the host literal l under the order encoding of val.
LitUnder(s, val, l) ==
    \/ l = TRUE_LIT
    \/ \E var \in Vars : \E k \in DOMAIN s.literals[var] :
           \/ s.literals[var][k] = l /\ Abs(l) # TRUE_LIT /\ val[var] <= k
           \/ s.literals[var][k] = 0 - l /\ Abs(l) # TRUE_LIT /\ val[var] > k

RECURSIVE WeightUnder(_, _, _)
\* Sum of the weights of the literals of wlits that are true under val.
WeightUnder(s, val, wlits) ==
    IF wlits = <<>> THEN 0
    ELSE (IF LitUnder(s, val, Head(wlits)[1]) THEN Head(wlits)[2] ELSE 0)
         + WeightUnder(s, val, Tail(wlits))

\* C9: the weight constraint translate hands to the host for a sum
\* constraint is tied to the activation literal, its weights are the |co|,
\* and, with the activation literal true, it is satisfied by exactly those
\* order-consistent assignments of the variables within their current bounds
\* that satisfy sum co*x <= rhs.
C9_TranslationEquivalent ==
    (last = "init" /\ ret /\ err = "" /\ prog > Len(MainPrograms)) =>
        \A wc \in host.wcs :
            /\ \/ wc.lit = 0 - Cons[TransId].literal
               \/ {0 - Cons[TransId].literal, 0 - wc.lit} \in host.clauses
            /\ \A i \in 1..Len(wc.wlits) :
                   \E e \in 1..Len(Cons[TransId].elements) :
                       wc.wlits[i][2] = Abs(Cons[TransId].elements[e][1])
            /\ \A val \in Valuations(state) :
                   (WeightUnder(state, val, wc.wlits) < wc.bound)
                       <=> (SumTerms(Cons[TransId].elements, val, val) <= Cons[TransId].rhs)

\* Propagator.init has translated a constraint with a positive and a negative
\* coefficient and an undecided activation literal into a weight constraint
\* over order literals of both variables.
C9_Witness ==
    /\ last = "init" /\ ret /\ err = "" /\ prog > Len(MainPrograms)
    /\ Cons[TransId].literal = AtomA
    /\ Cons[TransId].elements[1][1] > 0 /\ Cons[TransId].elements[2][1] < 0
    /\ \E wc \in host.wcs :
           /\ Len(wc.wlits) > 1
           /\ \E i, j \in 1..Len(wc.wlits) :
                  Abs(wc.wlits[i][1]) # TRUE_LIT /\ Abs(wc.wlits[j][1]) # TRUE_LIT
                  /\ Abs(wc.wlits[i][1]) # Abs(wc.wlits[j][1])
           /\ \E val \in Valuations(state) : WeightUnder(state, val, wc.wlits) >= wc.bound
           /\ \E val \in Valuations(state) : WeightUnder(state, val, wc.wlits) < wc.bound

\* C10: across every call of Propagator.init, with its State.update and
\* cleanup_literals, no level-0 lower bound of a variable decreases and no
\* upper bound increases, so bounds that are facts of an earlier solving step
\* persist.
C10_Persistent ==
    [][(last' = "init") =>
          \A var \in Vars :
              /\ lower_bound(state', var) >= lower_bound(state, var)
              /\ upper_bound(state', var) <= upper_bound(state, var)]_vars

\* The second init of a program has returned: its first step stated x <= 0
\* and y <= 0 as facts, its second step adds only x <= 1 and x - y <= 0, and
\* the bounds of the first step are still in place.
C10_Witness ==
    /\ last = "init" /\ ret /\ err = "" /\ step = 2
    /\ Programs[prog] = << <<5, 9>>, <<11, 3>> >>
    /\ Len(state.levels) = 1
    /\ upper_bound(state, "x") = 0 /\ upper_bound(state, "y") = 0

RECURSIVE LevelClosure(_)
\* The steps of Propagate and Check the solver takes on the current decision
\* level without deciding: the queued literals are delivered to propagate,
\* check runs on every propagation fixpoint, until one of them returns false
\* or check changes nothing any more.
LevelClosure(W) ==
    IF ~ W.ok \/ W.err # "" \/ W.h.conflict THEN W
    ELSE IF W.h.queue # <<>>
    THEN LevelClosure(propagate([W EXCEPT !.h.queue = <<>>, !.h.fix = FALSE], W.h.queue))
    ELSE IF ~ W.h.fix
    THEN Bind(Propagator_check(W), LAMBDA W1 :
           LevelClosure([W1 EXCEPT !.h.fix = (W1.h.trail = W.h.trail /\ ~ W1.h.conflict)]))
    ELSE W

\* The decision level the solver has just opened, run until propagate or
\* check returns false or the level is at its fixpoint.
OpenedLevel == LevelClosure(World(state, host))

\* C11: when propagate or check returns false part-way through a decision
\* level, the undo of that level fails no assertion, pops the level and
\* leaves the todo queue and both tables of pending bound changes empty; the
\* bounds, the cached bounds and inactive marks of the constraint states and
\* the v2cs lists are then as they were before the level was opened.
C11_ConflictRecovery ==
    /\ (err = "" /\ last \in {"propagate", "check"} /\ ~ ret /\ host.dl > 0
            /\ level(state).level = host.dl) =>
           LET W == undo(World(state, host))
           IN  /\ W.err = ""
               /\ W.s.todo = <<>> /\ W.s.udiff = <<>> /\ W.s.ldiff = <<>>
               /\ W.s.levels = Front(state.levels)
    /\ CanPropagateNewLevel =>
           LET W2 == OpenedLevel
               W3 == undo(W2)
           IN  (~ W2.ok /\ W2.err = "") =>
                   /\ W3.err = ""
                   /\ W3.s.lower = state.lower
                   /\ W3.s.upper = state.upper
                   /\ Caches(W3.s) = Caches(state)
                   /\ W3.s.v2cs = state.v2cs
                   /\ W3.s.levels = state.levels
                   /\ W3.s.todo = <<>> /\ W3.s.udiff = <<>> /\ W3.s.ldiff = <<>>

\* The solver has just opened a decision level on which check returns
\* false after bounds were changed, changes were pushed into the caches of
\* constraint states and a constraint state was marked inactive.
C11_Witness ==
    /\ CanPropagateNewLevel
    /\ LET W2 == OpenedLevel
       IN  /\ ~ W2.ok /\ W2.err = ""
           /\ level(W2.s).inactive # <<>>
           /\ level(W2.s).undo_lower # <<>> \/ level(W2.s).undo_upper # <<>>
           /\ Caches(W2.s) # Caches(state)
           /\ undo(W2).s.levels = state.levels

\* Propagate has returned false on a decision level above 0 with bound
\* changes pending.
C11_WitnessPropagate ==
    /\ err = "" /\ last = "propagate" /\ ~ ret /\ host.dl > 0
    /\ level(state).level = host.dl
    /\ state.udiff # <<>> \/ state.ldiff # <<>>

\* The values get_literal is asked about: every value of the domain and one
\* beyond each end.
AskedValues == (MIN_INT - 1)..(MAX_INT + 1)

\* What get_literal(var, v) does in the world W0, C15 without its clause on
\* the polarities indexed in litmap: the constant literals outside
\* [min_bound, max_bound) with nothing changed; inside, a literal that
\* exists is returned with nothing changed; one that does not is a fresh host
\* literal, stored in literals, watched in both polarities, and the second
\* call returns it with nothing changed.
GetLiteralContract(W0, var, v) ==
    LET W  == get_literal(W0, var, v)
        W2 == get_literal(W, var, v)
    IN  IF v < min_bound(W0.s, var)
        THEN W.lit = 0 - TRUE_LIT /\ W.s = W0.s /\ W.h = W0.h
        ELSE IF v >= max_bound(W0.s, var)
        THEN W.lit = TRUE_LIT /\ W.s = W0.s /\ W.h = W0.h
        ELSE IF has_literal(W0.s, var, v)
        THEN W.lit = W0.s.literals[var][v] /\ W.s = W0.s /\ W.h = W0.h
        ELSE W.err = "" =>
                 /\ Abs(W.lit) \in W.h.used \ W0.h.used
                 /\ Cardinality(W.h.used) = Cardinality(W0.h.used) + 1
                 /\ has_literal(W.s, var, v) /\ W.s.literals[var][v] = W.lit
                 /\ InSeq(W.s.litmap[W.lit], <<var, v>>)
                 /\ {W.lit, 0 - W.lit} \subseteq W.h.watches
                 /\ W2.lit = W.lit /\ W2.s = W.s /\ W2.h = W.h

\* C15 as stated: in addition the new literal is indexed in litmap under both
\* of its polarities.
C15_BothPolarities ==
    err = "" =>
        \A i \in 1..Len(state.vars) : \A v \in AskedValues :
            LET W == get_literal(World(state, host), state.vars[i], v)
            IN  /\ GetLiteralContract(World(state, host), state.vars[i], v)
                /\ (W.err = "" /\ W.h.used # host.used) =>
                       /\ InSeq(W.s.litmap[W.lit], <<state.vars[i], v>>)
                       /\ InSeq(W.s.litmap[0 - W.lit], <<state.vars[i], v>>)

\* C15, amended: get_literal returns the constant false literal when
\* v < min_bound and the constant true literal when v >= max_bound; otherwise,
\* when no literal exists for v, it allocates one host literal, stores it in
\* literals, indexes the pair (var, v) in litmap under the stored literal
\* only, and watches both polarities; a second call for the same pair returns
\* the same literal and changes nothing.
C15_GetLiteral ==
    err = "" =>
        \A i \in 1..Len(state.vars) : \A v \in AskedValues :
            LET W == get_literal(World(state, host), state.vars[i], v)
            IN  /\ GetLiteralContract(World(state, host), state.vars[i], v)
                /\ (W.err = "" /\ W.h.used # host.used) =>
                       ~ InSeq(W.s.litmap[0 - W.lit], <<state.vars[i], v>>)

\* The solver is above level 0 and a variable has a value inside its bounds
\* without an order literal, so that get_literal allocates one; another
\* value has a literal, and the values beyond the bounds have the constants.
C15_Witness ==
    /\ err = "" /\ host.mode = "control" /\ host.dl > 0
    /\ \E i \in 1..Len(state.vars) : \E v, u \in AskedValues :
           LET W == get_literal(World(state, host), state.vars[i], v)
           IN  /\ min_bound(state, state.vars[i]) <= v /\ v < max_bound(state, state.vars[i])
               /\ ~ has_literal(state, state.vars[i], v)
               /\ has_literal(state, state.vars[i], u)
               /\ W.err = "" /\ W.h.used # host.used
               /\ W.s.literals[state.vars[i]][v] = W.lit

\* The truth values update_literal is called with: True, None, False.
Truths == {1, 0, -1}

\* C16: above decision level 0 or with truth None, update_literal returns
\* (True, get_literal(var, v)) and changes exactly what get_literal changes;
\* at level 0 with truth True or False it returns the constant literal that
\* matches truth, and it returns False if and only if the host reports a
\* conflict for the unit clause that fixes the old literal.
C16_UpdateLiteral ==
    (err = "" /\ ~ host.conflict) =>
        \A i \in 1..Len(state.vars) : \A v \in AskedValues : \A truth \in Truths :
            LET W0 == World(state, host)
                W  == update_literal(W0, state.vars[i], v, truth)
                G  == get_literal(W0, state.vars[i], v)
            IN  IF truth = 0 \/ host.dl > 0
                THEN W.ok /\ W.lit = G.lit /\ W.s = G.s /\ W.h = G.h /\ W.err = G.err
                ELSE W.err = "" =>
                         /\ W.lit = (IF truth = 1 THEN TRUE_LIT ELSE 0 - TRUE_LIT)
                         /\ ~ W.ok <=> W.h.conflict
                         /\ ~ W.ok =>
                                /\ Len(W.h.added) = Len(W0.h.added) + 1
                                /\ Last(W.h.added).clause
                                       = <<IF truth = 1 THEN G.lit ELSE 0 - G.lit>>
                         /\ W.h.used = host.used

\* The solver is at level 0 and a variable has an order literal that is not
\* a constant: update_literal replaces it by the constant that matches truth
\* and fixes it with a unit clause; for one truth value the host accepts the
\* clause, for the other it reports a conflict.
C16_Witness ==
    /\ err = "" /\ ~ host.conflict /\ host.mode = "control" /\ host.dl = 0
    /\ \E i \in 1..Len(state.vars) : \E v \in AskedValues : \E t, u \in Truths :
           LET W0 == World(state, host)
               W  == update_literal(W0, state.vars[i], v, t)
               X  == update_literal(W0, state.vars[i], v, u)
           IN  /\ has_literal(state, state.vars[i], v)
               /\ Abs(state.literals[state.vars[i]][v]) # TRUE_LIT
               /\ t # 0 /\ u # 0
               /\ W.err = "" /\ W.ok /\ Len(W.h.added) = Len(W0.h.added) + 1
               /\ W.s.literals[state.vars[i]][v] = W.lit
               /\ X.err = "" /\ ~ X.ok /\ X.h.conflict

(***************************************************************************)
(* parsing: normalisation of the guard of a theory atom                    *)
(***************************************************************************)
\* Largest absolute value of the right-hand side of a parsed theory atom.
MaxNormRhs == 2

\* The guards of a theory atom.
Guards == {"<=", "<", ">", ">=", "=", "!="}

\* The world _normalize_constraint works in: the PropagateInit object h, the
\* constraints yielded so far, the clauses added so far and the literal the
\* last add_literal returned.
NormWorld(h) == [h |-> h, out |-> <<>>, cls |-> <<>>, lit |-> 0]

\* yield literal, elements, rhs, strict
Yield(N, literal, elements, rhs, strict) ==
    [N EXCEPT !.out = Append(@, Sum(literal, elements, rhs, strict))]

\* init.add_clause: normalisation does not propagate.
init_add_clause(N, clause) == [N EXCEPT !.cls = Append(@, clause)]

\* init.add_literal
init_add_literal(N) ==
    Bind(add_literal(World(State, N.h)), LAMBDA W : [N EXCEPT !.h = W.h, !.lit = W.lit])

\* elements with every coefficient negated.
Negated(elements) ==
    [i \in 1..Len(elements) |-> <<0 - elements[i][1], elements[i][2]>>]

\* Mutation: < becomes <= with the right-hand side as it is.
rewrite_strict_guard_mutant(op, rhs) ==
    IF op = ">" THEN <<">=", rhs + 1>>
    ELSE IF op = "<" THEN <<"<=", rhs>>
    ELSE <<op, rhs>>

\* > becomes >= rhs + 1 and < becomes <= rhs - 1.
rewrite_strict_guard(op, rhs) ==
    IF op = ">" THEN <<">=", rhs + 1>>
    ELSE IF op = "<" THEN <<"<=", rhs - 1>>
    ELSE <<op, rhs>>

\* >= becomes <= over the negated elements and the negated right-hand side.
rewrite_geq_guard(op, rhs, elements) ==
    IF op = ">=" THEN [op |-> "<=", rhs |-> 0 - rhs, elements |-> Negated(elements)]
    ELSE [op |-> op, rhs |-> rhs, elements |-> elements]

\* The literals a and b of a strict equality: the true literal when the
\* atom is true, otherwise two fresh literals with  literal <=> a /\ b.
equality_literals(N, literal) ==
    Bind(IF is_true(N.h, literal) THEN <<N, 1, 1>>
         ELSE Bind(init_add_literal(N), LAMBDA Na :
                Bind(init_add_literal(Na), LAMBDA Nb : <<Nb, Na.lit, Nb.lit>>)),
         LAMBDA t :
           [N |-> init_add_clause(init_add_clause(init_add_clause(t[1],
                      <<0 - literal, t[2]>>), <<0 - literal, t[3]>>),
                      <<0 - t[2], 0 - t[3], literal>>),
            a |-> t[2], b |-> t[3]])

RECURSIVE _normalize_constraint(_, _, _, _, _, _)
\* parsing._normalize_constraint: the constraints are yielded in order.
_normalize_constraint(N, literal, elements0, op0, rhs0, strict) ==
    Bind(rewrite_geq_guard(rewrite_strict_guard(op0, rhs0)[1],
                           rewrite_strict_guard(op0, rhs0)[2], elements0),
         LAMBDA g :
           IF g.op = "<="
           THEN IF strict /\ Len(g.elements) = 1
                THEN Yield(N, literal, g.elements, g.rhs, TRUE)
                ELSE Bind(Yield(N, literal, g.elements, g.rhs, FALSE), LAMBDA N1 :
                       IF strict
                       THEN _normalize_constraint(N1, 0 - literal, g.elements, ">", g.rhs, FALSE)
                       ELSE N1)
           ELSE IF g.op = "="
           THEN Bind(IF strict THEN equality_literals(N, literal)
                     ELSE [N |-> N, a |-> literal, b |-> literal],
                     LAMBDA e :
                       Bind(_normalize_constraint(e.N, e.a, g.elements, "<=", g.rhs, strict),
                            LAMBDA N2 :
                              _normalize_constraint(N2, e.b, g.elements, ">=", g.rhs, strict)))
           ELSE IF strict
           THEN _normalize_constraint(N, 0 - literal, g.elements, "=", g.rhs, TRUE)
           ELSE Bind(init_add_literal(N), LAMBDA Na :
                  Bind(init_add_literal(Na), LAMBDA Nb :
                    Bind(_normalize_constraint(Nb, Na.lit, g.elements, "<", g.rhs, FALSE),
                         LAMBDA N1 :
                           Bind(_normalize_constraint(N1, Nb.lit, g.elements, ">", g.rhs, FALSE),
                                LAMBDA N2 :
                                  init_add_clause(
                                    init_add_clause(N2, <<Na.lit, Nb.lit, 0 - literal>>),
                                    <<0 - Na.lit, 0 - Nb.lit>>))))))

\* The elements of the theory atoms that are normalised.
NormElements ==
    { <<>>,
      << <<1, "x">> >>, << <<-1, "x">> >>, << <<2, "y">> >>,
      << <<1, "x">>, <<-1, "y">> >>, << <<1, "x">>, <<1, "y">> >>, << <<2, "x">>, <<-1, "y">> >> }

\* A theory atom before normalisation: its solver literal is a fact, an atom
\* or a negated atom; head atoms are not strict, body atoms are.
NormInputs ==
    [literal : {TRUE_LIT, AtomA, 0 - AtomA}, elements : NormElements, op : Guards,
     rhs : (0 - MaxNormRhs)..MaxNormRhs, strict : BOOLEAN, done : {FALSE}]

InitNormalize ==
    /\ prog = 1
    /\ state = State
    /\ host = Host
    /\ ret = TRUE
    /\ last = "new"
    /\ err = ""
    /\ step = 0
    /\ propagator = Propagator
    /\ threads = <<>>
    /\ norm \in NormInputs
    /\ term = NoTerm

\* parsing._parse_constraint hands the atom to _normalize_constraint.
Normalize ==
    /\ ~ norm.done
    /\ norm' = [in |-> norm, done |-> TRUE,
                N |-> _normalize_constraint(NormWorld(host), norm.literal, norm.elements,
                                            norm.op, norm.rhs, norm.strict)]
    /\ UNCHANGED <<main, term>>

SpecNormalize == InitNormalize /\ [][Normalize]_vars

\* Truth of the literal l under the assignment asg of the host variables.
LitHolds(asg, l) == IF l > 0 THEN asg[l] ELSE ~ asg[0 - l]

\* sum op rhs
GuardHolds(op, sum, rhs) ==
    CASE op = "<=" -> sum <= rhs
      [] op = "<"  -> sum < rhs
      [] op = ">"  -> sum > rhs
      [] op = ">=" -> sum >= rhs
      [] op = "="  -> sum = rhs
      [] op = "!=" -> sum # rhs

\* Every clause added and every constraint yielded holds: the literal of a
\* constraint implies its sum <= rhs, and is implied by it when the
\* constraint is strict.
OutHolds(N, val, asg) ==
    /\ \A i \in 1..Len(N.cls) : \E k \in 1..Len(N.cls[i]) : LitHolds(asg, N.cls[i][k])
    /\ \A i \in 1..Len(N.out) :
           /\ LitHolds(asg, N.out[i].literal)
                  => SumTerms(N.out[i].elements, val, val) <= N.out[i].rhs
           /\ (N.out[i].strict /\ ~ LitHolds(asg, N.out[i].literal))
                  => SumTerms(N.out[i].elements, val, val) > N.out[i].rhs

\* The assignments of the host variables in use; the true literal is true.
NormAssignments(N) == {asg \in [N.h.used -> BOOLEAN] : asg[TRUE_LIT]}

\* C20: for every guard, the constraints in <=-form that
\* _normalize_constraint yields hold together with the clauses it adds, for
\* some values of the auxiliary literals, under exactly those values of the
\* variables and of the literal of the atom under which
\* literal -> sum op rhs holds, and sum op rhs -> literal as well when the
\* atom is strict.
C20_GuardNormalization ==
    (norm.done /\ norm # NoNorm) =>
        \A val \in [Vars -> MIN_INT..MAX_INT] : \A t \in BOOLEAN :
            (\E asg \in NormAssignments(norm.N) : LitHolds(asg, norm.in.literal) = t)
            => ((\E asg \in NormAssignments(norm.N) :
                     /\ LitHolds(asg, norm.in.literal) = t
                     /\ OutHolds(norm.N, val, asg))
                <=> (/\ t => GuardHolds(norm.in.op,
                                        SumTerms(norm.in.elements, val, val), norm.in.rhs)
                     /\ (norm.in.strict /\ GuardHolds(norm.in.op,
                             SumTerms(norm.in.elements, val, val), norm.in.rhs)) => t))

\* A strict atom with guard != over two variables and an undecided literal
\* has been normalised into four constraints and three clauses over two
\* auxiliary literals, and its guard holds for some values and fails for
\* others.
C20_Witness ==
    /\ norm.done /\ norm # NoNorm
    /\ norm.in.op = "!=" /\ norm.in.strict /\ norm.in.literal = AtomA
    /\ Len(norm.in.elements) = 2
    /\ Len(norm.N.out) = 4 /\ Len(norm.N.cls) = 3
    /\ Cardinality(norm.N.h.used) = Cardinality(host.used) + 2
    /\ \E val \in [Vars -> MIN_INT..MAX_INT] :
           SumTerms(norm.in.elements, val, val) = norm.in.rhs
    /\ \E val \in [Vars -> MIN_INT..MAX_INT] :
           SumTerms(norm.in.elements, val, val) # norm.in.rhs

\* The bound Propagator.check offers to the state: the bound of the
\* propagator plus the adjustment of the objective.
OfferedBound == propagator.minimize_bound[1] + Cons[propagator.minimize].adjust

\* Propagator.check has a bound to offer.
OffersBound ==
    /\ err = "" /\ host.mode = "control"
    /\ has_minimize(propagator) /\ propagator.minimize_bound # <<>>
    /\ propagator.minimize \in DOMAIN state.cstate

\* C17: State.update_minimize stores the offered bound only if the state has
\* none or the offer is strictly smaller, and then the minimize constraint
\* is in the todo queue; an offer that does not improve leaves the stored
\* bound alone. So in every step that does not run State.update (every step
\* but init) a bound, once stored, stays stored and does not increase.
C17_MinimizeTightening ==
    [][ /\ OffersBound =>
            LET s1 == check_minimize(World(state, host)).s
            IN  IF state.minimize_bound = <<>> \/ OfferedBound < state.minimize_bound[1]
                THEN /\ s1.minimize_bound = <<OfferedBound>>
                     /\ InSeq(s1.todo, propagator.minimize)
                ELSE s1.minimize_bound = state.minimize_bound
        /\ (last' # "init" /\ state.minimize_bound # <<>>) =>
               /\ state'.minimize_bound # <<>>
               /\ state'.minimize_bound[1] <= state.minimize_bound[1]
      ]_vars

\* A check has just offered a bound that is worse than the one the state
\* holds, and the state kept its own.
C17_Witness ==
    /\ last = "check" /\ OffersBound
    /\ state.minimize_bound # <<>>
    /\ OfferedBound > state.minimize_bound[1]

\* A check has just stored the offered bound in place of a larger one.
C17_WitnessImproved ==
    /\ last = "check" /\ OffersBound
    /\ state.minimize_bound = <<OfferedBound>>
    /\ state.minimize_level > 0

\* The application has set a bound that improves on the bound of the state,
\* and the solver is about to call Propagator.check.
NextCheckTightens ==
    /\ CanCheck /\ ~ host.fix /\ OffersBound
    /\ state.minimize_bound = <<>> \/ OfferedBound < state.minimize_bound[1]

\* C18: after Propagator.update_minimize(bound) the next check uses
\* (bound + adjust) - 1 as the rhs of the minimize constraint, which makes
\* the objective strictly smaller than bound + adjust.
C18_StrictBound ==
    NextCheckTightens =>
        LET W == Propagator_check(World(state, host))
        IN  W.err = "" => rhs_of(W.s, propagator.minimize) = OfferedBound - 1

\* What Propagator.check does: the rhs of the minimize constraint is
\* bound + adjust itself, and the constraint reads sum <= rhs.
C18_CodeBound ==
    NextCheckTightens =>
        LET W == Propagator_check(World(state, host))
        IN  W.err = "" => rhs_of(W.s, propagator.minimize) = OfferedBound

\* A total assignment whose objective equals bound + adjust passes the check
\* that follows update_minimize(bound).
C18_EqualValueAccepted ==
    /\ last = "check" /\ ret /\ OffersBound /\ is_total(host) /\ host.fix
    /\ state.minimize_bound = <<OfferedBound>>
    /\ AllAssigned(state)
    /\ SumTerms(Cons[propagator.minimize].elements, LowerOf(state), LowerOf(state)) = OfferedBound

\* Propagator.init has just completed for more than one thread.
InitCompleted == last = "init" /\ ret /\ err = "" /\ threads # <<>>

\* The cached bounds and the inactive level of a constraint state.
CacheOf(cs) ==
    IF cs.kind = "distinct"
    THEN <<cs.inactive_level, cs.map_lower, cs.map_upper, cs.assigned>>
    ELSE <<cs.inactive_level, cs.lower_bound, cs.upper_bound>>

\* State t has what copy_state takes from State s, constraint by constraint.
CopiedFrom(t, s) ==
    /\ t.vars = s.vars
    /\ \A v \in Vars : InSeq(s.vars, v) =>
           /\ lower_bound(t, v) = lower_bound(s, v)
           /\ upper_bound(t, v) = upper_bound(s, v)
           /\ t.literals[v] = s.literals[v]
    /\ t.litmap = s.litmap
    /\ t.v2cs = s.v2cs
    /\ \A c \in DOMAIN s.cstate :
           c \in DOMAIN t.cstate /\ CacheOf(t.cstate[c]) = CacheOf(s.cstate[c])

\* C13: after init with n threads every other State has the variables,
\* bounds, value-to-literal maps, litmap, v2cs lists of the master, and the
\* same set of constraint states with equal cached bounds and inactive
\* levels.
C13_CopyEquivalent ==
    InitCompleted =>
        \A i \in DOMAIN threads :
            /\ CopiedFrom(threads[i].s, state)
            /\ DOMAIN threads[i].s.cstate = DOMAIN state.cstate

\* C13 without the claim on the set: every constraint state of the master
\* has an equal copy in the other State.
C13_CopiedFromMaster ==
    InitCompleted => \A i \in DOMAIN threads : CopiedFrom(threads[i].s, state)

\* The State of a thread keeps the state of a constraint that the master
\* has removed.
C13_StaleConstraintState ==
    /\ InitCompleted
    /\ \E i \in DOMAIN threads : DOMAIN threads[i].s.cstate # DOMAIN state.cstate

\* The variable bounds, literal maps, constraint-state caches, level frames
\* and todo queue of a State.
Owned(s) == <<s.lower, s.upper, s.literals, s.litmap, s.cstate, s.levels, s.todo>>

ThreadCalls == {"thread_propagate", "thread_check", "thread_undo"}

TodoList_iter(sq) == {sq}

\* A plain mapping whose iteration order is not the insertion order.
OrderedDict_items_mutant(d) ==
    {[i \in DOMAIN d |-> d[p[i]]] : p \in Permutations(DOMAIN d)}

\* OrderedDict.items of State._udiff and State._ldiff: the orders in which
\* the mapping can yield its items; the insertion order is the only order.
OrderedDict_items(d) == {d}

\* The outcomes of a second run of the call `name` from the same state, with
\* the same assignment and the same literal numbers of the solver.
SecondRuns(name) ==
    {IF name = "propagate"
     THEN propagate(World(s, [host EXCEPT !.queue = <<>>, !.fix = FALSE]), host.queue)
     ELSE IF name = "check" THEN Propagator_check(World(s, host))
     ELSE undo(World(s, host)) :
       s \in {[state EXCEPT !.todo = td, !.udiff = ud, !.ldiff = ld] :
                td \in TodoList_iter(state.todo),
                ud \in OrderedDict_items(state.udiff),
                ld \in OrderedDict_items(state.ldiff)}}

get_assignment(s) ==
    [i \in 1..Len(s.vars) |-> <<s.vars[i], lower_bound(s, s.vars[i])>>]

\* The programs solved under fairness.
LivePrograms == {3, 4, 5}

InitLive == Init /\ prog \in LivePrograms

\* One solve call: the solver propagates, checks, decides and backtracks.
NextLive == PInit \/ Propagate \/ Check \/ Decide \/ Undo

\* Propagator.check with the assignment total: the solver calls check on
\* every total assignment it reaches, so a check that is possible again and
\* again on total assignments is called again and again.
CheckTotal == Check /\ is_total(host)

\* The solver has reached a total assignment and is about to call check:
\* the condition under which CheckTotal can happen.
TotalReached ==
    /\ err = "" /\ host.mode = "control" /\ ~ host.conflict
    /\ host.queue = <<>> /\ ~ host.fix
    /\ is_total(host)

\* Strong fairness of CheckTotal, SF_vars(CheckTotal), with the condition
\* under which it can happen written out.
CheckedWhenTotal == ([]<>TotalReached) => []<><<CheckTotal>>_vars

\* The solver does not stop deciding while a variable is free, and calls
\* check on the total assignments it reaches.
SpecLive == InitLive /\ [][NextLive]_vars /\ WF_vars(Decide) /\ CheckedWhenTotal

\* check has returned on a total assignment without a conflict, and
\* get_assignment gives the value of every variable.
FullAssignment ==
    /\ last = "check" /\ err = "" /\ ret /\ ~ host.conflict
    /\ is_total(host)
    /\ \A i \in 1..Len(state.vars) :
         /\ get_assignment(state)[i][2] = upper_bound(state, state.vars[i])
         /\ is_assigned(state, state.vars[i])

\* The state and the solver on which Propagator.check calls check_full.
BeforeCheckFull == check(check_minimize(World(state, host)))

\* A check step that calls check_full with some variable unassigned adds, for
\* one unassigned variable, an order literal the solver has not handed out
\* before, at a value v with lb <= v < ub; no other order literal changes.
AllocatesFresh ==
    LET W1 == BeforeCheckFull
    IN  (/\ last' = "check" /\ err' = ""
         /\ W1.ok /\ W1.err = ""
         /\ Cardinality(W1.h.used) = Cardinality(host.used)
         /\ is_total(W1.h)
         /\ \E var \in Vars : ~ is_assigned(W1.s, var))
        => \E var \in Vars : \E v \in lower_bound(W1.s, var)..(upper_bound(W1.s, var) - 1) :
             /\ InSeq(W1.s.vars, var)
             /\ ~ has_literal(W1.s, var, v)
             /\ has_literal(state', var, v)
             /\ Abs(state'.literals[var][v]) \notin W1.h.used
             /\ Abs(state'.literals[var][v]) \in host'.used
             /\ host'.val[Abs(state'.literals[var][v])] = 0
             /\ state'.literals = set_literal(W1.s, var, v, state'.literals[var][v]).literals

\* check_full is called with some variable unassigned in the state.
CallsCheckFull(W1) ==
    /\ last' = "check" /\ err' = ""
    /\ W1.ok /\ W1.err = ""
    /\ Cardinality(W1.h.used) = Cardinality(host.used)
    /\ is_total(W1.h)
    /\ \E var \in Vars : ~ is_assigned(W1.s, var)

\* A check step that calls check_full with some variable unassigned asks for
\* the order literal of one unassigned variable at a value v with
\* lb <= v < ub. Either the literal is fresh, or it exists already: then the
\* solver has assigned it through a clause added by this check, and the
\* propagate call that tells the state is still to come.
AllocatesOrAwaits ==
    LET W1 == BeforeCheckFull
    IN  CallsCheckFull(W1)
        => \E var \in Vars : \E v \in lower_bound(W1.s, var)..(upper_bound(W1.s, var) - 1) :
             /\ InSeq(W1.s.vars, var)
             /\ has_literal(state', var, v)
             /\ state'.literals = set_literal(W1.s, var, v, state'.literals[var][v]).literals
             /\ IF has_literal(W1.s, var, v)
                THEN /\ ~ is_total(host)
                     /\ \E k \in 1..Len(host'.queue) :
                          Abs(host'.queue[k]) = Abs(W1.s.literals[var][v])
                ELSE /\ Abs(state'.literals[var][v]) \notin W1.h.used
                     /\ Abs(state'.literals[var][v]) \in host'.used
                     /\ host'.val[Abs(state'.literals[var][v])] = 0

SimpleValue(co, rhs) ==
    CHOOSE v \in (0 - 4)..4 :
        IF co > 0 THEN v * co <= rhs /\ rhs < (v + 1) * co
        ELSE (v + 1) * co <= rhs /\ rhs < v * co

\* The order literal of var <= v: a constant outside [min_bound, max_bound).
OrderLit(s, var, v) ==
    IF v < min_bound(s, var) THEN 0 - TRUE_LIT
    ELSE IF v >= max_bound(s, var) THEN TRUE_LIT
    ELSE s.literals[var][v]

\* The builder at work in Propagator.init, before the theory atoms of the
\* step are added.
BuilderWorld ==
    [World(update(state, host), host) EXCEPT !.h.mode = "builder", !.h.fresh = {}]

\* What CSPBuilder.add_constraint does with the singleton constraint c. The
\* order literal is the constant of its truth value when the activation
\* literal is decided; where that contradicts the constant the value has
\* already, the unit clause of the false literal is added as well.
IntegrateSimpleContract(W0, c) ==
    LET clit   == Cons[c].literal
        co     == Cons[c].elements[1][1]
        var    == Cons[c].elements[1][2]
        strict == Cons[c].strict
        v      == SimpleValue(co, Cons[c].rhs)
        lit0   == IF co > 0 THEN clit ELSE 0 - clit
        truth  == value(W0.h, lit0)
        Wv     == [W0 EXCEPT !.s = add_variable(W0.s, var)]
        W      == builder_add_constraint(W0, c)
        ol     == IF truth # 0 THEN truth * TRUE_LIT ELSE OrderLit(W.s, var, v)
        lit    == IF co > 0 THEN ol ELSE 0 - ol
        n      == Len(W.h.pending)
        k      == IF strict THEN 2 ELSE 1
    IN  W.err = "" =>
          IF ~ strict /\ is_false(W0.h, clit) THEN W = W0
          ELSE /\ W.s.cstate = W0.s.cstate /\ W.s.todo = W0.s.todo
               /\ W.s.l2c = W0.s.l2c /\ W.s.v2cs = Wv.s.v2cs
               /\ IF /\ strict
                     /\ min_bound(Wv.s, var) <= v /\ v < max_bound(Wv.s, var)
                     /\ ~ has_literal(Wv.s, var, v)
                  THEN /\ W.ok
                       /\ has_literal(W.s, var, v)
                       /\ W.s.literals[var][v] =
                              (IF truth = 0 THEN lit0 ELSE truth * TRUE_LIT)
                       /\ InSeq(W.s.litmap[W.s.literals[var][v]], <<var, v>>)
                       /\ truth = 0 => {lit0, 0 - lit0} \subseteq W.h.watches
                       /\ W.h.pending = W0.h.pending
                       /\ W.h.used = W0.h.used
                  ELSE W.ok =>
                       /\ (min_bound(W.s, var) <= v /\ v < max_bound(W.s, var))
                              => has_literal(W.s, var, v)
                       /\ OrderLit(W.s, var, v) # ol =>
                              /\ OrderLit(W.s, var, v) = 0 - ol
                              /\ n >= Len(W0.h.pending) + k + 1
                              /\ W.h.pending[n - k] = <<0 - TRUE_LIT>>
                       /\ IF strict
                          THEN /\ n >= Len(W0.h.pending) + 2
                               /\ W.h.pending[n - 1] = <<0 - clit, lit>>
                               /\ W.h.pending[n] = <<0 - lit, clit>>
                          ELSE /\ n >= Len(W0.h.pending) + 1
                               /\ W.h.pending[n] = <<0 - clit, lit>>

\* C21: a singleton constraint co*x <= rhs with activation literal c gets no
\* ConstraintState; c is related to the order literal of x <= floor(rhs/co)
\* for co > 0 and to the negation of the one of x <= ceil(rhs/co) - 1 for
\* co < 0. When the constraint is strict and that value has no literal, c
\* (negated for co < 0; the constant of its truth value once c is decided)
\* becomes the order literal; otherwise the clause c -> lit, and lit -> c
\* when strict, is added.
C21_SingletonIntegration ==
    (err = "" /\ host.mode = "init" /\ ~ host.conflict) =>
        \A c \in SimpleIds : IntegrateSimpleContract(BuilderWorld, c)

\* Between two solve calls x has an order literal for one value and none
\* for another: one strict constraint makes its undecided activation literal
\* the order literal, another one is tied to an existing literal by clauses.
C21_Witness ==
    /\ err = "" /\ host.mode = "init" /\ ~ host.conflict /\ step > 0
    /\ \E c, d \in SimpleIds :
         LET W0 == BuilderWorld
             W  == builder_add_constraint(W0, c)
             D  == builder_add_constraint(W0, d)
             vc == SimpleValue(Cons[c].elements[1][1], Cons[c].rhs)
             vd == SimpleValue(Cons[d].elements[1][1], Cons[d].rhs)
         IN  /\ Cons[c].strict /\ Cons[c].elements[1][1] < 0
             /\ InSeq(W0.s.vars, "x")
             /\ value(W0.h, Cons[c].literal) = 0
             /\ ~ has_literal(W0.s, "x", vc)
             /\ W.err = "" /\ has_literal(W.s, "x", vc)
             /\ W.s.literals["x"][vc] = 0 - Cons[c].literal
             /\ Cons[d].strict /\ has_literal(W0.s, "x", vd)
             /\ D.err = "" /\ D.ok /\ Len(D.h.pending) = Len(W0.h.pending) + 2

\* ---------------------------------------------------------------------
\* Domains.
\* ---------------------------------------------------------------------

\* The values a domain is built from: the values of a variable and one
\* beyond each end.
DomValues == (MIN_INT - 1)..(MAX_INT + 1)

RECURSIVE Intervals(_)
\* The sorted list of disjoint left-closed intervals [lo, hi) that covers
\* the set S of integers, as list(IntervalSet) yields it.
Intervals(S) ==
    IF S = {} THEN <<>>
    ELSE LET lo == CHOOSE a \in S : \A b \in S : a <= b
             hi == CHOOSE h \in S : (lo..h) \subseteq S /\ (h + 1) \notin S
         IN  <<<<lo, hi + 1>>>> \o Intervals(S \ (lo..hi))

Domains == {Intervals(S) : S \in SUBSET DomValues}

InUnion(domain, val) ==
    \E i \in 1..Len(domain) : domain[i][1] <= val /\ val < domain[i][2]

\* The activation literals of a domain: a fact or an atom.
DomLits == {TRUE_LIT, AtomA}

\* The value val of var agrees with the order literals of var that are
\* constants or the true literal act.
Consistent(s, var, val, act) ==
    \A v \in DOMAIN s.literals[var] :
        LET l == s.literals[var][v]
        IN  /\ l \in {TRUE_LIT, act} => val <= v
            /\ l \in {0 - TRUE_LIT, 0 - act} => val > v

\* The variables of the solver that are order literals of var.
OrderVars(s, var) == {Abs(s.literals[var][v]) : v \in DOMAIN s.literals[var]}

\* Literal l of a clause holds when act is true, var has the value val and
\* the variables in T, which are no order literals of var, are true.
HoldsFor(s, var, val, act, T, l) ==
    \/ l \in {TRUE_LIT, act}
    \/ /\ l \notin {0 - TRUE_LIT, 0 - act}
       /\ IF Abs(l) \in OrderVars(s, var)
          THEN \E v \in DOMAIN s.literals[var] :
                 \/ s.literals[var][v] = l /\ val <= v
                 \/ s.literals[var][v] = 0 - l /\ val > v
          ELSE (l > 0) = (Abs(l) \in T)

\* The state before the domain of x is integrated.
DomainWorld == [BuilderWorld EXCEPT !.s = add_variable(@, "x")]

\* The clauses that integrate_domain has added.
NewClauses(W0, W) == SubSeq(W.h.pending, Len(W0.h.pending) + 1, Len(W.h.pending))

\* With act true, the value val of x agrees with the state and, for some
\* values of the literals that are no order literals of x any more, with
\* the clauses that integrate_domain has added.
Admits(W0, W, act, val) ==
    LET cls  == NewClauses(W0, W)
        free == UNION {{Abs(cls[k][i]) : i \in 1..Len(cls[k])} : k \in 1..Len(cls)}
                    \ (OrderVars(W.s, "x") \cup {TRUE_LIT, Abs(act)})
    IN  /\ Consistent(W.s, "x", val, act)
        /\ \E T \in SUBSET free :
             \A k \in 1..Len(cls) :
                \E i \in 1..Len(cls[k]) : HoldsFor(W.s, "x", val, act, T, cls[k][i])

\* integrate_domain restricts x to the union of the intervals of domain.
DomainContract(W0, act, domain) ==
    LET W == integrate_domain(W0, act, "x", domain)
    IN  (W.err = "" /\ ~ is_false(W0.h, act)) =>
            /\ W.ok
            /\ \A val \in MIN_INT..MAX_INT :
                 Consistent(W0.s, "x", val, act)
                     => (Admits(W0, W, act, val) <=> InUnion(domain, val))

\* C22: for a sorted list of disjoint left-closed intervals [lo, hi), the
\* clauses added by integrate_domain under a true activation literal are
\* satisfied by an order-consistent value of the variable exactly when that
\* value lies in the union of the intervals.
C22_DomainIntegration ==
    (err = "" /\ host.mode = "init" /\ ~ host.conflict) =>
        \A act \in DomLits : \A domain \in Domains :
            DomainContract(DomainWorld, act, domain)

\* The same for the lists that hold at least one interval.
C22_NonEmptyDomain ==
    (err = "" /\ host.mode = "init" /\ ~ host.conflict) =>
        \A act \in DomLits : \A domain \in Domains \ {<<>>} :
            DomainContract(DomainWorld, act, domain)

\* A domain of two intervals is integrated under an undecided atom for a
\* variable that has an order literal already: clauses chain the order
\* literals in both directions.
C22_Witness ==
    /\ err = "" /\ host.mode = "init" /\ ~ host.conflict /\ step > 0
    /\ \E domain \in Domains :
         LET W0 == DomainWorld
             W  == integrate_domain(W0, AtomA, "x", domain)
         IN  /\ Len(domain) = 2
             /\ value(W0.h, AtomA) = 0
             /\ DOMAIN W0.s.literals["x"] # {}
             /\ W.err = "" /\ W.ok
             /\ Len(W.h.pending) = Len(W0.h.pending) + 4
             /\ \E val \in MIN_INT..MAX_INT : Admits(W0, W, AtomA, val)
             /\ \E val \in MIN_INT..MAX_INT :
                  Consistent(W0.s, "x", val, AtomA) /\ ~ Admits(W0, W, AtomA, val)

\* ---------------------------------------------------------------------
\* Static extrema.
\* ---------------------------------------------------------------------

\* The bottom elements of the bound stacks of every variable of s are the
\* static extrema.
StaticExtrema(s) ==
    \A k \in 1..Len(s.vars) :
        /\ min_bound(s, s.vars[k]) = MIN_INT
        /\ max_bound(s, s.vars[k]) = MAX_INT

\* The VarStates of the master keep the static extrema at the bottom of
\* their stacks.
C23_MasterExtrema == err = "" => StaticExtrema(state)

\* C23: for every VarState in every thread and after every operation the
\* bottom element of the lower stack is MIN_INT and the bottom element of
\* the upper stack is MAX_INT.
C23_StaticExtrema ==
    err = "" => /\ StaticExtrema(state)
                /\ \A i \in DOMAIN threads : StaticExtrema(threads[i].s)

\* ---------------------------------------------------------------------
\* Non-empty domains.
\* ---------------------------------------------------------------------

\* Every variable of s has a value left.
NonEmptyDomains(s) ==
    \A k \in 1..Len(s.vars) :
        lower_bound(s, s.vars[k]) <= upper_bound(s, s.vars[k])

\* C24: in every state in which propagate and check have returned true for
\* the current assignment of the solver, the current lower bound of every
\* variable is at most its current upper bound.
C24_NonEmptyDomains ==
    (err = "" /\ ret /\ last \in {"propagate", "check"} /\ ~ host.conflict)
        => NonEmptyDomains(state)

\* check has returned true on a decision level on which order literals have
\* narrowed a variable from both sides.
C24_Witness ==
    /\ err = "" /\ ret /\ last = "check" /\ ~ host.conflict /\ host.dl > 0
    /\ NonEmptyDomains(state)
    /\ \E k \in 1..Len(state.vars) :
         /\ lower_bound(state, state.vars[k]) > min_bound(state, state.vars[k])
         /\ upper_bound(state, state.vars[k]) < max_bound(state, state.vars[k])
         /\ Len(state.lower[state.vars[k]]) > 1
         /\ Len(state.upper[state.vars[k]]) > 1

\* ---------------------------------------------------------------------
\* Cached bounds of sum constraints.
\* ---------------------------------------------------------------------

\* C25: whenever ConstraintState.propagate is entered for a sum constraint
\* that is not marked inactive, its cached lower and upper bound are the
\* sums computed from the current bounds of its variables: no assertion of
\* _check_state would fail.
C25_CacheConsistency ==
    /\ state.chk = ""
    /\ \A i \in DOMAIN threads : threads[i].s.chk = ""

\* The same for the State of thread 0 alone.
C25_MasterCache == state.chk = ""

\* ---------------------------------------------------------------------
\* The value a term is propagated to.
\* ---------------------------------------------------------------------

\* Largest absolute value of a coefficient.
MaxCoeff == 4

\* Largest slack.
MaxSlack == 9

\* Largest absolute value of a bound.
MaxTermBound == 3

\* A term co*var with the bounds of var and the slack of its constraint.
TermInputs ==
    {[co |-> co, slack |-> slack, lb |-> lb, ub |-> ub, done |-> FALSE] :
        co \in ((0 - MaxCoeff)..MaxCoeff) \ {0}, slack \in 0..MaxSlack,
        lb \in (0 - MaxTermBound)..MaxTermBound, ub \in (0 - MaxTermBound)..MaxTermBound}

InitValue ==
    /\ prog = 1
    /\ state = State
    /\ host = Host
    /\ ret = TRUE
    /\ last = "new"
    /\ err = ""
    /\ step = 0
    /\ propagator = Propagator
    /\ threads = <<>>
    /\ norm = NoNorm
    /\ term \in {t \in TermInputs : t.lb <= t.ub}

\* The body of the loop of ConstraintState.propagate up to the assertions:
\* diff and value are computed for the term.
ChooseValue ==
    /\ ~ term.done
    /\ LET diff == term.slack + term.co * (IF term.co > 0 THEN term.lb ELSE term.ub)
       IN  term' = [in |-> term, done |-> TRUE, diff |-> diff,
                    value |-> propagate_value(term.co, diff)]
    /\ UNCHANGED <<main, norm>>

SpecValue == InitValue /\ [][ChooseValue]_vars

\* C26: for every non-zero coefficient co, slack >= 0 and bounds, the value
\* chosen in ConstraintState.propagate satisfies 0 <= diff - co*value < |co|,
\* value >= lb for co > 0 and value <= ub for co < 0.
C26_ValueInRange ==
    (term.done /\ term # NoTerm) =>
        /\ 0 <= term.diff - term.in.co * term.value
        /\ term.diff - term.in.co * term.value < Abs(term.in.co)
        /\ term.in.co > 0 => term.value >= term.in.lb
        /\ term.in.co < 0 => term.value <= term.in.ub

\* A value is chosen for a negative coefficient that does not divide diff,
\* and diff is negative: the quotient is rounded towards the smaller value.
C26_Witness ==
    /\ term.done /\ term # NoTerm
    /\ term.in.co < -1 /\ term.diff < 0
    /\ term.diff - term.in.co * term.value > 0
    /\ term.value < term.in.ub

\* ---------------------------------------------------------------------
\* The calls of ConstraintState.propagate within a check.
\* ---------------------------------------------------------------------

RECURSIVE TodoEntries(_, _)
\* The pairs <<W, c>> of a world and a constraint for which the loop of
\* check over todo handles c in W.
TodoEntries(W, todo) ==
    IF todo = <<>> THEN {}
    ELSE LET c  == Head(todo)
             W1 == check_todo(W, <<c>>)
         IN  {<<W, c>>} \cup (IF W1.ok THEN TodoEntries(W1, Tail(todo)) ELSE {})

RECURSIVE LoopEntries(_)
\* The same for the rounds of the loop of State.check.
LoopEntries(W) ==
    LET W1 == integrate_facts(W)
        W4 == update_bounds_of_constraints(W1)
        W0 == [W4 EXCEPT !.s.todo = <<>>]
        W5 == check_todo(W0, W4.s.todo)
    IN  IF ~ W1.ok \/ W4.err # "" THEN {}
        ELSE TodoEntries(W0, W4.s.todo)
             \cup (IF W5.ok /\ W5.s.facts_integrated # _num_facts(W5.s)
                   THEN LoopEntries(W5) ELSE {})

\* The same for State.check.
CheckEntries(W) ==
    IF W.h.dl # level(W.s).level /\ level(W.s).level >= W.s.minimize_level
    THEN {}
    ELSE LoopEntries(W)

RECURSIVE SimplifyEntries(_)
\* The same for the rounds of State.simplify.
SimplifyEntries(W) ==
    LET W1  == cc_propagate(W)
        off == Len(W1.h.trail)
        W2  == propagate(W1, Slice(W1.h.trail, W1.s.trail_offset))
        Wc  == [W2 EXCEPT !.s.trail_offset = off]
        W3  == check(Wc)
    IN  IF ~ W1.ok \/ (W1.s.trail_offset = off /\ W1.s.todo = <<>>) \/ ~ W2.ok THEN {}
        ELSE CheckEntries(Wc) \cup (IF W3.ok THEN SimplifyEntries(W3) ELSE {})

\* The same for Propagator.check or Propagator.init called in the current
\* state.
TodoSteps ==
    IF err = "" /\ host.mode = "control" /\ ~ host.conflict
       /\ host.queue = <<>> /\ ~ host.fix
    THEN CheckEntries(check_minimize(World(state, host)))
    ELSE IF err = "" /\ host.mode = "init" /\ ~ host.conflict
            /\ step < Len(Programs[prog])
    THEN LET Wb == init_builder(World(state, host), Programs[prog][step + 1])
         IN  IF Wb.err # "" \/ ~ Wb.ok THEN {} ELSE SimplifyEntries(Wb)
    ELSE {}

\* The loop over todo enters ConstraintState.propagate for a sum or minimize
\* constraint.
EntersPropagate(W, c) == ~ is_false(W.h, Cons[c].literal) /\ Cons[c].kind # "distinct"

PropagateEntries == {e \in TodoSteps : EntersPropagate(e[1], e[2])}

\* ConstraintState.propagate reaches its loop over the elements.
ReachesLoop(W, c) ==
    /\ c \in DOMAIN W.s.cstate
    /\ ~ rhs_is_none(W.s, c)
    /\ W.s.cstate[c].upper_bound > rhs_of(W.s, c)
    /\ rhs_of(W.s, c) - W.s.cstate[c].lower_bound >= 0
    /\ is_true(W.h, Cons[c].literal)
    /\ _generate_reason(W, c).err = ""

RECURSIVE TermEntriesFrom(_, _, _, _)
TermEntriesFrom(W, c, slack, i) ==
    IF i > Len(Cons[c].elements) THEN {}
    ELSE LET W1 == propagate_term(W, c, slack, i)
         IN  {<<W, c, i>>} \cup (IF W1.ok THEN TermEntriesFrom(W1, c, slack, i + 1) ELSE {})

\* The triples <<W, c, i>> for which the loop of ConstraintState.propagate
\* handles element i of constraint c in world W, where W holds the reason
\* and the number of guesses.
TermEntries ==
    UNION {IF ReachesLoop(e[1], e[2])
           THEN TermEntriesFrom(_generate_reason(e[1], e[2]), e[2],
                    rhs_of(e[1].s, e[2]) - e[1].s.cstate[e[2]].lower_bound, 1)
           ELSE {} : e \in PropagateEntries}

\* The value v of the order literal var <= v that the loop derives for
\* element i, and whether a literal is derived at all.
TermVar(c, i) == Cons[c].elements[i][2]

TermValue(W, c, i) ==
    LET co    == Cons[c].elements[i][1]
        var   == Cons[c].elements[i][2]
        slack == rhs_of(W.s, c) - W.s.cstate[c].lower_bound
        diff  == slack + co * (IF co > 0 THEN lower_bound(W.s, var) ELSE upper_bound(W.s, var))
    IN  IF co > 0 THEN propagate_value(co, diff) ELSE propagate_value(co, diff) - 1

Derives(W, c, i) ==
    LET co  == Cons[c].elements[i][1]
        var == Cons[c].elements[i][2]
        v   == TermValue(W, c, i)
    IN  IF co > 0 THEN v < upper_bound(W.s, var) ELSE v + 1 > lower_bound(W.s, var)

\* The conclusion for element i is a fact.
FactStrength(W, c, i) ==
    /\ W.h.dl = 0
    /\ ~ tagged(c)
    /\ is_fixed(W.h, Cons[c].literal)
    /\ \A j \in 1..Len(Cons[c].elements) : j # i => is_fixed(W.h, W.lbs[j])

IsConstant(s, var, v) ==
    has_literal(s, var, v) /\ Abs(s.literals[var][v]) = TRUE_LIT

\* For element i a constant literal is stored only with fact strength;
\* without it an order literal is used and, unless the literal is true
\* already, the reason with the literal in place of lbs[i] is added.
TermContract(W, c, i) ==
    LET co   == Cons[c].elements[i][1]
        var  == TermVar(c, i)
        v    == TermValue(W, c, i)
        W2   == propagate_term(W, c, rhs_of(W.s, c) - W.s.cstate[c].lower_bound, i)
        lit  == IF co > 0 THEN W2.s.literals[var][v] ELSE 0 - W2.s.literals[var][v]
    IN  (Derives(W, c, i) /\ W2.err = "") =>
          /\ (IsConstant(W2.s, var, v) /\ ~ IsConstant(W.s, var, v))
                => FactStrength(W, c, i)
          /\ ~ FactStrength(W, c, i) =>
                /\ has_literal(W2.s, var, v)
                /\ has_literal(W.s, var, v) => W2.s.literals[var][v] = W.s.literals[var][v]
                /\ \/ is_true(W.h, lit) /\ W2.h.added = W.h.added
                   \/ /\ Len(W2.h.added) = Len(W.h.added) + 1
                      /\ W2.h.added[Len(W2.h.added)].clause = [W.lbs EXCEPT ![i] = lit]

\* C27: in ConstraintState.propagate a derived bound is stored as the
\* constant true/false literal only if the decision level is 0, the
\* constraint is not tagged, the activation literal is fixed and every other
\* bound literal of the reason is fixed; in every other case an order
\* literal is used and the reason with the term's own bound literal replaced
\* by the derived literal is added.
C27_FactStrength == \A e \in TermEntries : TermContract(e[1], e[2], e[3])

\* Programs in which propagate derives facts during init (one sum constraint
\* that holds as a fact) and programs in which it derives bounds on higher
\* decision levels.
StrengthPrograms == LivePrograms \cup {7, 8, 167, 168}

InitStrength ==
    /\ prog \in StrengthPrograms
    /\ state = State
    /\ host = Host
    /\ ret = TRUE
    /\ last = "new"
    /\ err = ""
    /\ step = 0
    /\ propagator = Propagator
    /\ threads = <<>>
    /\ AuxInit

SpecStrength == InitStrength /\ [][Next]_vars

\* Propagator.init is about to run for a sum constraint that holds as a
\* fact: propagate derives a bound from it and stores it as a constant
\* literal, which the variable did not have.
C27_Witness ==
    /\ err = "" /\ host.mode = "init" /\ host.dl = 0
    /\ \E e \in TermEntries :
         LET W2 == propagate_term(e[1], e[2],
                       rhs_of(e[1].s, e[2]) - e[1].s.cstate[e[2]].lower_bound, e[3])
         IN  /\ Derives(e[1], e[2], e[3])
             /\ FactStrength(e[1], e[2], e[3])
             /\ W2.err = ""
             /\ IsConstant(W2.s, TermVar(e[2], e[3]), TermValue(e[1], e[2], e[3]))
             /\ ~ IsConstant(e[1].s, TermVar(e[2], e[3]), TermValue(e[1], e[2], e[3]))

\* ---------------------------------------------------------------------
\* The reasons of ConstraintState.propagate.
\* ---------------------------------------------------------------------

\* ConstraintState.propagate calls _generate_reason for constraint c in
\* world W: for a conflict, or before the loop over the elements.
RunsReason(W, c) ==
    /\ c \in DOMAIN W.s.cstate
    /\ ~ is_false(W.h, Cons[c].literal)
    /\ ~ rhs_is_none(W.s, c)
    /\ W.s.cstate[c].upper_bound > rhs_of(W.s, c)
    /\ \/ rhs_of(W.s, c) - W.s.cstate[c].lower_bound < 0
       \/ is_true(W.h, Cons[c].literal)

ReasonEntries == {e \in PropagateEntries : RunsReason(e[1], e[2])}

\* The same for Propagator.check called for a thread of the solver.
ThreadSteps ==
    UNION {IF err = "" /\ threads[i].h.mode = "control" /\ ~ threads[i].h.conflict
              /\ threads[i].h.queue = <<>> /\ ~ threads[i].h.fix
           THEN CheckEntries(check_minimize(World(ThreadState(i), threads[i].h)))
           ELSE {} : i \in DOMAIN threads}

ThreadReasonEntries ==
    {e \in ThreadSteps : EntersPropagate(e[1], e[2]) /\ RunsReason(e[1], e[2])}

\* The value whose order literal _generate_reason asks for element i.
ReasonValue(s, c, i) ==
    IF Cons[c].elements[i][1] > 0
    THEN lower_bound(s, Cons[c].elements[i][2]) - 1
    ELSE upper_bound(s, Cons[c].elements[i][2])

\* get_literal answers without adding a literal.
LiteralKnown(s, var, v) ==
    v < min_bound(s, var) \/ v >= max_bound(s, var) \/ has_literal(s, var, v)

\* _generate_reason for c in W finds every bound literal, allocates none,
\* and every literal it collects for an element is false.
ReasonContract(W, c) ==
    LET Wr == _generate_reason(W, c)
    IN  /\ \A i \in 1..Len(Cons[c].elements) :
             LiteralKnown(W.s, Cons[c].elements[i][2], ReasonValue(W.s, c, i))
        /\ Wr.err = ""
        /\ Wr.h.used = W.h.used
        /\ Wr.s.literals = W.s.literals
        /\ Wr.s.litmap = W.s.litmap
        /\ Len(Wr.lbs) = Len(Cons[c].elements) + 1
        /\ \A i \in 1..Len(Cons[c].elements) : is_false(W.h, Wr.lbs[i])

\* C28: whenever _generate_reason runs, every bound literal it collects
\* already exists or is a constant and is false under the current
\* assignment: get_literal allocates no literal there and the is_false
\* assertion holds.
C28_ReasonWitnesses ==
    /\ err # "generate_reason:literal_not_false"
    /\ \A e \in ReasonEntries : ReasonContract(e[1], e[2])
    /\ \A e \in ThreadReasonEntries : ReasonContract(e[1], e[2])

\* A check on a positive decision level is about to build a reason, one of
\* whose literals is an order literal that is not fixed.
C28_Witness ==
    /\ err = "" /\ host.mode = "control" /\ host.dl > 0
    /\ \E e \in ReasonEntries :
         LET Wr == _generate_reason(e[1], e[2])
         IN  /\ Wr.err = ""
             /\ \E i \in 1..Len(Cons[e[2]].elements) :
                  /\ Wr.lbs[i] \notin {TRUE_LIT, 0 - TRUE_LIT}
                  /\ is_false(e[1].h, Wr.lbs[i])
                  /\ ~ is_fixed(e[1].h, Wr.lbs[i])

\* ---------------------------------------------------------------------
\* Inactive constraints.
\* ---------------------------------------------------------------------

RECURSIVE AllInactive(_, _)
\* The inactive lists of the levels k..top, one after the other.
AllInactive(s, k) ==
    IF k > Len(s.levels) THEN <<>>
    ELSE s.levels[k].inactive \o AllInactive(s, k + 1)

\* A constraint is recorded in at most one inactive list, and the minimize
\* constraint is neither marked inactive nor recorded.
InactiveLists(s) ==
    LET all == AllInactive(s, 1)
    IN  /\ \A i, j \in 1..Len(all) : all[i] = all[j] => i = j
        /\ \A i \in 1..Len(all) : tagged_removable(all[i])
        /\ \A c \in DOMAIN s.cstate : ~ tagged_removable(c) => ~ marked_inactive(s.cstate[c])

\* The condition under which the loop of check over todo marks c inactive.
MarkCondition(W, c) ==
    \/ is_false(W.h, Cons[c].literal)
    \/ /\ Cons[c].kind = "sum"
       /\ \/ W.s.cstate[c].upper_bound <= rhs_of(W.s, c)
          \/ rhs_of(W.s, c) - W.s.cstate[c].lower_bound < 0

\* The step of the loop of check over todo that takes W to W1 marks c inactive on
\* the top level exactly under MarkCondition, and marks nothing else.
MarkResult(W, c, W1) ==
    LET top == Len(W.s.levels)
    IN  (c \in DOMAIN W.s.cstate /\ W1.err = "") =>
          /\ Len(W1.s.levels) = top
          /\ \A k \in 1..(top - 1) : W1.s.levels[k].inactive = W.s.levels[k].inactive
          /\ \A d \in DOMAIN W.s.cstate \ {c} :
                W1.s.cstate[d].inactive_level = W.s.cstate[d].inactive_level
          /\ IF tagged_removable(c) /\ ~ marked_inactive(W.s.cstate[c]) /\ MarkCondition(W, c)
             THEN /\ W1.s.cstate[c].inactive_level = W.s.levels[top].level + 1
                  /\ W1.s.levels[top].inactive = Append(W.s.levels[top].inactive, c)
             ELSE /\ W1.s.cstate[c].inactive_level = W.s.cstate[c].inactive_level
                  /\ W1.s.levels[top].inactive = W.s.levels[top].inactive

MarkContract(W, c) == MarkResult(W, c, check_todo(W, <<c>>))

\* C29: check marks a removable constraint inactive on the top level exactly
\* when its activation literal is false, its cached upper bound is at most
\* the right-hand side, or its slack is negative; a constraint is in at most
\* one level's inactive list, and the minimize constraint is never marked
\* inactive.
C29_InactivityRule ==
    /\ err = "" => InactiveLists(state)
    /\ \A e \in TodoSteps : MarkContract(e[1], e[2])

\* The programs of Spec and of SpecMinimize: sum and distinct constraints that
\* become inactive under decisions, and objectives that are bounded.
InitInactive ==
    /\ prog \in (1..Len(MainPrograms)) \cup (FirstMinimizeProgram..(FirstThreadProgram - 1))
    /\ state = State
    /\ host = Host
    /\ ret = TRUE
    /\ last = "new"
    /\ err = ""
    /\ step = 0
    /\ propagator = Propagator
    /\ threads = <<>>
    /\ AuxInit

SpecInactive == InitInactive /\ [][NextMinimize]_vars

\* The same for the states of the threads.
C29_ThreadInactivity ==
    /\ err = "" => \A i \in DOMAIN threads : InactiveLists(ThreadState(i))
    /\ \A e \in ThreadSteps : MarkContract(e[1], e[2])

\* A check on a positive decision level is about to mark a sum constraint
\* inactive whose literal is not false, while another constraint is
\* recorded as inactive on a lower level.
C29_Witness ==
    /\ err = "" /\ host.mode = "control" /\ host.dl > 0
    /\ \E k \in 1..(Len(state.levels) - 1) : state.levels[k].inactive # <<>>
    /\ \E e \in TodoSteps :
         /\ e[2] \in DOMAIN e[1].s.cstate
         /\ Cons[e[2]].kind = "sum"
         /\ ~ marked_inactive(e[1].s.cstate[e[2]])
         /\ ~ is_false(e[1].h, Cons[e[2]].literal)
         /\ MarkCondition(e[1], e[2])
         /\ marked_inactive(check_todo(e[1], <<e[2]>>).s.cstate[e[2]])

\* ---------------------------------------------------------------------
\* Level frames and bound stacks.
\* ---------------------------------------------------------------------

\* The levels of the frames increase strictly from 0.
FrameLevels(s) ==
    /\ s.levels[1].level = 0
    /\ \A k \in 1..(Len(s.levels) - 1) : s.levels[k].level < s.levels[k + 1].level

\* The number of frames that hold var in the undo list named by field.
FramesWith(s, field, var) ==
    Cardinality({k \in 1..Len(s.levels) : InSeq(s.levels[k][field], var)})

\* A bound stack has its bottom element and at most one more for every
\* frame that recorded a change of the bound.
BoundStacks(s) ==
    \A var \in DOMAIN s.lower :
        /\ Len(s.lower[var]) >= 1
        /\ Len(s.lower[var]) <= 1 + FramesWith(s, "undo_lower", var)
        /\ Len(s.upper[var]) >= 1
        /\ Len(s.upper[var]) <= 1 + FramesWith(s, "undo_upper", var)

\* From s to s2 a stack grows by one element at most, for a variable that
\* the top frame records and did not record before.
GrowsOnFirstChange(s, s2) ==
    \A var \in (DOMAIN s.lower) \cap (DOMAIN s2.lower) :
        /\ Len(s2.lower[var]) > Len(s.lower[var]) =>
              /\ Len(s2.lower[var]) = Len(s.lower[var]) + 1
              /\ InSeq(level(s2).undo_lower, var)
              /\ Len(s2.levels) > Len(s.levels) \/ ~ InSeq(level(s).undo_lower, var)
        /\ Len(s2.upper[var]) > Len(s.upper[var]) =>
              /\ Len(s2.upper[var]) = Len(s.upper[var]) + 1
              /\ InSeq(level(s2).undo_upper, var)
              /\ Len(s2.levels) > Len(s.levels) \/ ~ InSeq(level(s).undo_upper, var)

\* From s to s2 a frame is pushed exactly if pushes holds, and then it is
\* one frame for decision level dl.
PushesFrame(s, s2, dl, pushes) ==
    /\ Len(s2.levels) > Len(s.levels) <=> pushes
    /\ Len(s2.levels) > Len(s.levels) =>
          /\ Len(s2.levels) = Len(s.levels) + 1
          /\ level(s2).level = dl

PopAssertions ==
    {"pop_lower:stack_of_size_one", "pop_upper:stack_of_size_one", "pop_level:level_0"}

FrameInvariant ==
    /\ err \notin PopAssertions
    /\ err = "" =>
          /\ FrameLevels(state) /\ BoundStacks(state)
          /\ \A i \in DOMAIN threads : FrameLevels(threads[i].s) /\ BoundStacks(threads[i].s)

FrameStep ==
    err' = "" =>
      /\ PushesFrame(state, state', host.dl,
                     last' = "propagate" /\ host.dl > level(state).level)
      /\ GrowsOnFirstChange(state, state')
      /\ \A i \in (DOMAIN threads) \cap (DOMAIN threads') :
            /\ PushesFrame(threads[i].s, threads'[i].s, threads[i].h.dl,
                           /\ last' = "thread_propagate"
                           /\ threads'[i] # threads[i]
                           /\ threads[i].h.dl > level(threads[i].s).level)
            /\ GrowsOnFirstChange(threads[i].s, threads'[i].s)

\* C30: propagate pushes a new Level frame exactly when the decision level
\* of the host exceeds the level of the top frame, so the levels of the
\* frames increase strictly from 0; a bound stack grows only on the first
\* change within a frame; undo never pops a bound stack of size one nor the
\* frame of level 0, in the master and in the threads after copy_state.
C30_FramesAndStacks == [] FrameInvariant /\ [][FrameStep]_vars

\* A thread that got its state from copy_state has undone a frame: the
\* bound that the frame changed is back on a stack of size one, which
\* level 0 records as changed.
C30_Witness ==
    /\ err = "" /\ last = "thread_undo"
    /\ \E i \in DOMAIN threads :
         /\ Len(threads[i].s.levels) = 1
         /\ \E var \in DOMAIN threads[i].s.lower :
              /\ Len(threads[i].s.lower[var]) = 1
              /\ InSeq(threads[i].s.levels[1].undo_lower, var)

\* The solver decides on any free literal (or on its assumption first).
DecideAny ==
    /\ err = "" /\ host.mode = "control" /\ ~ host.conflict
    /\ host.queue = <<>> /\ host.fix
    /\ host.dl < MaxLevel
    /\ \E v \in host.used : \E l \in {v, 0 - v} :
         /\ host.val[v] = 0
         /\ (host.assume # 0 /\ host.val[host.assume] = 0) => l = host.assume
         /\ host' = DecideLit(host, l)
    /\ last' = "decide"
    /\ UNCHANGED <<state, ret, err, prog, step, propagator, threads>>
    /\ UNCHANGED aux

InitChain ==
    /\ prog \in FirstWideProgram..Len(Programs)
    /\ state = State
    /\ host = Host
    /\ ret = TRUE
    /\ last = "new"
    /\ err = ""
    /\ step = 0
    /\ propagator = Propagator
    /\ threads = <<>>
    /\ AuxInit

NextChain == PInit \/ Propagate \/ Check \/ DecideAny \/ Undo \/ EndStep

\* The programs over x with values from -WideBound to WideBound, where the
\* solver decides in any order: x gets order literals for three values.
SpecChain == InitChain /\ [][NextChain]_vars

\* ---------------------------------------------------------------------
\* The order literals that State.propagate is called with.
\* ---------------------------------------------------------------------

RECURSIVE ChangeEntries(_, _)
\* The pairs <<W, lit>> for which the loop of State.propagate calls
\* _update_domain for lit in world W.
ChangeEntries(W, changes) ==
    IF changes = <<>> THEN {}
    ELSE LET lit == Head(changes)
             W0  == [W EXCEPT !.s.todo = TodoExtend(@, W.s.l2c[lit])]
             W1  == _update_domain(W0, lit)
         IN  {<<W0, lit>>} \cup (IF W1.ok THEN ChangeEntries(W1, Tail(changes)) ELSE {})

\* The same for Propagator.propagate called in the current state.
DomainEntries ==
    IF err = "" /\ host.mode = "control" /\ ~ host.conflict /\ host.queue # <<>>
    THEN LET W == World(state, [host EXCEPT !.queue = <<>>, !.fix = FALSE])
         IN  ChangeEntries([W EXCEPT !.s = _push_level(W.s, W.h.dl)], host.queue)
    ELSE {}

RECURSIVE UpperEntries(_, _, _)
\* The triples <<W, lit, pair>> for which the first loop of _update_domain
\* handles the pair stored under lit in world W.
UpperEntries(W, lit, pairs) ==
    IF pairs = <<>> THEN {}
    ELSE LET W1 == update_upper(W, lit, <<Head(pairs)>>)
         IN  {<<W, lit, Head(pairs)>>}
             \cup (IF W1.ok THEN UpperEntries(W1, lit, Tail(pairs)) ELSE {})

RECURSIVE LowerEntries(_, _, _)
\* The same for the second loop and the pairs stored under -lit.
LowerEntries(W, lit, pairs) ==
    IF pairs = <<>> THEN {}
    ELSE LET W1 == update_lower(W, lit, <<Head(pairs)>>)
         IN  {<<W, lit, Head(pairs)>>}
             \cup (IF W1.ok THEN LowerEntries(W1, lit, Tail(pairs)) ELSE {})

TrueEntries ==
    UNION {IF e[2] # TRUE_LIT /\ is_true(e[1].h, e[2])
           THEN UpperEntries(e[1], e[2], e[1].s.litmap[e[2]])
           ELSE {} : e \in DomainEntries}

FalseEntries ==
    UNION {IF e[2] # TRUE_LIT /\ is_true(e[1].h, e[2])
           THEN LET W1 == IF e[1].s.litmap[e[2]] # <<>>
                          THEN update_upper(e[1], e[2], e[1].s.litmap[e[2]])
                          ELSE [e[1] EXCEPT !.ok = TRUE]
                IN  IF W1.ok THEN LowerEntries(W1, e[2], W1.s.litmap[0 - e[2]]) ELSE {}
           ELSE {} : e \in DomainEntries}

\* The step for the pair (var, v) of a literal var <= v that became true
\* lowers the upper bound to v if it was above, and propagates the literal
\* of the next larger value that has one: it is true already, or a clause is
\* added.
ChainsUp(W, lit, var, v) ==
    LET W1   == update_upper(W, lit, <<<<var, v>>>>)
        succ == succ_value(W.s, var, v)
    IN  W1.err = "" =>
          /\ upper_bound(W1.s, var) = IF upper_bound(W.s, var) > v THEN v
                                      ELSE upper_bound(W.s, var)
          /\ lower_bound(W1.s, var) = lower_bound(W.s, var)
          /\ IF succ # None /\ ~ is_true(W.h, W.s.literals[var][succ])
             THEN Len(W1.h.added) > Len(W.h.added)
             ELSE W1.h.added = W.h.added

\* The step for the pair (var, v) of a literal var <= v that became false
\* raises the lower bound to v + 1 if it was below, and propagates the
\* literal of the next smaller value that has one.
ChainsDown(W, lit, var, v) ==
    LET W1   == update_lower(W, lit, <<<<var, v>>>>)
        prev == prev_value(W.s, var, v)
    IN  W1.err = "" =>
          /\ lower_bound(W1.s, var) = IF lower_bound(W.s, var) < v + 1 THEN v + 1
                                      ELSE lower_bound(W.s, var)
          /\ upper_bound(W1.s, var) = upper_bound(W.s, var)
          /\ IF prev # None /\ ~ is_false(W.h, W.s.literals[var][prev])
             THEN Len(W1.h.added) > Len(W.h.added)
             ELSE W1.h.added = W.h.added

\* C31 (as the code has it): when a literal for v <= k becomes true,
\* _update_domain lowers the upper bound of v only if it was above k, and
\* propagates the literal of the next larger value with a literal whether
\* the bound changed or not; symmetrically for a literal that became
\* false, the lower bound and the next smaller value.
C31_Chaining ==
    /\ \A e \in TrueEntries : ChainsUp(e[1], e[2], e[3][1], e[3][2])
    /\ \A e \in FalseEntries : ChainsDown(e[1], e[2], e[3][1], e[3][2])

\* C31 (as stated): the neighbouring literal is propagated only if the bound
\* changes.
C31_OnlyOnChange ==
    /\ \A e \in TrueEntries :
         LET W1 == update_upper(e[1], e[2], <<e[3]>>)
         IN  (W1.err = "" /\ Len(W1.h.added) > Len(e[1].h.added))
                => upper_bound(e[1].s, e[3][1]) > e[3][2]
    /\ \A e \in FalseEntries :
         LET W1 == update_lower(e[1], e[2], <<e[3]>>)
         IN  (W1.err = "" /\ Len(W1.h.added) > Len(e[1].h.added))
                => lower_bound(e[1].s, e[3][1]) < e[3][2] + 1

\* Propagator.propagate is about to handle a literal var <= k that became
\* true while the upper bound is k or less already, and adds the clause
\* that makes the literal of the next larger value true.
C31_Witness ==
    \E e \in TrueEntries :
        LET W1 == update_upper(e[1], e[2], <<e[3]>>)
        IN  /\ W1.err = "" /\ W1.ok
            /\ upper_bound(e[1].s, e[3][1]) <= e[3][2]
            /\ succ_value(e[1].s, e[3][1], e[3][2]) # None
            /\ Len(W1.h.added) = Len(e[1].h.added) + 1

InitFacts ==
    /\ prog \in FirstFactProgram..(FirstAliasProgram - 1)
    /\ state = State
    /\ host = Host
    /\ ret = TRUE
    /\ last = "new"
    /\ err = ""
    /\ step = 0
    /\ propagator = Propagator
    /\ threads = <<>>
    /\ AuxInit

\* Multi-shot solving in which a later step states a fact about a variable
\* that has order literals.
SpecFacts == InitFacts /\ [][Next]_vars

\* ---------------------------------------------------------------------
\* The calls of State._propagate_variable.
\* ---------------------------------------------------------------------

RECURSIVE LoopRounds(_)
\* The worlds in which a round of the loop of State.check starts.
LoopRounds(W) ==
    LET W1 == integrate_facts(W)
        W4 == update_bounds_of_constraints(W1)
        W5 == check_todo([W4 EXCEPT !.s.todo = <<>>], W4.s.todo)
    IN  {W} \cup (IF W1.ok /\ W4.err = "" /\ W5.ok
                     /\ W5.s.facts_integrated # _num_facts(W5.s)
                  THEN LoopRounds(W5) ELSE {})

CheckRounds(W) ==
    IF W.h.dl # level(W.s).level /\ level(W.s).level >= W.s.minimize_level
    THEN {}
    ELSE LoopRounds(W)

RECURSIVE SimplifyRounds(_)
\* The same for the calls of check by State.simplify.
SimplifyRounds(W) ==
    LET W1  == cc_propagate(W)
        off == Len(W1.h.trail)
        W2  == propagate(W1, Slice(W1.h.trail, W1.s.trail_offset))
        Wc  == [W2 EXCEPT !.s.trail_offset = off]
        W3  == check(Wc)
    IN  IF ~ W1.ok \/ (W1.s.trail_offset = off /\ W1.s.todo = <<>>) \/ ~ W2.ok THEN {}
        ELSE CheckRounds(Wc) \cup (IF W3.ok THEN SimplifyRounds(W3) ELSE {})

RECURSIVE SimplifyChanges(_)
\* The pairs <<W, lit>> for which State.propagate, called by State.simplify,
\* calls _update_domain.
SimplifyChanges(W) ==
    LET W1  == cc_propagate(W)
        off == Len(W1.h.trail)
        W2  == propagate(W1, Slice(W1.h.trail, W1.s.trail_offset))
        W3  == check([W2 EXCEPT !.s.trail_offset = off])
    IN  IF ~ W1.ok \/ (W1.s.trail_offset = off /\ W1.s.todo = <<>>) THEN {}
        ELSE ChangeEntries([W1 EXCEPT !.s = _push_level(W1.s, W1.h.dl)],
                           Slice(W1.h.trail, W1.s.trail_offset))
             \cup (IF W2.ok /\ W3.ok THEN SimplifyChanges(W3) ELSE {})

\* The worlds in which Propagator.check or Propagator.init, called in the
\* current state, start a round of the loop of State.check.
Rounds ==
    IF err = "" /\ host.mode = "control" /\ ~ host.conflict
       /\ host.queue = <<>> /\ ~ host.fix
    THEN CheckRounds(check_minimize(World(state, host)))
    ELSE IF err = "" /\ host.mode = "init" /\ ~ host.conflict
            /\ step < Len(Programs[prog])
    THEN LET Wb == init_builder(World(state, host), Programs[prog][step + 1])
         IN  IF Wb.err # "" \/ ~ Wb.ok THEN {} ELSE SimplifyRounds(Wb)
    ELSE {}

\* The pairs <<W, lit>> for which Propagator.propagate or Propagator.init,
\* called in the current state, call _update_domain from State.propagate.
AllDomainEntries ==
    IF err = "" /\ host.mode = "init" /\ ~ host.conflict /\ step < Len(Programs[prog])
    THEN LET Wb == init_builder(World(state, host), Programs[prog][step + 1])
         IN  IF Wb.err # "" \/ ~ Wb.ok THEN {} ELSE SimplifyChanges(Wb)
    ELSE DomainEntries

\* The calls <<W, var, v, lit, sign>> of _propagate_variable by the first
\* and by the second loop of _update_domain(W0, lit), where the loops start
\* at the given positions of the lists.
VariableCalls(W0, lit, start1, start2) ==
    LET Wu == IF W0.s.litmap[lit] # <<>>
              THEN update_upper(W0, lit, Slice(W0.s.litmap[lit], start1))
              ELSE [W0 EXCEPT !.ok = TRUE]
        up == IF W0.s.litmap[lit] # <<>>
              THEN UpperEntries(W0, lit, Slice(W0.s.litmap[lit], start1)) ELSE {}
        lo == IF Wu.ok /\ Wu.s.litmap[0 - lit] # <<>>
              THEN LowerEntries(Wu, lit, Slice(Wu.s.litmap[0 - lit], start2)) ELSE {}
    IN  {<<[e[1] EXCEPT !.s = tighten_upper(e[1].s, e[3][1], e[3][2])], e[3][1],
           succ_value(e[1].s, e[3][1], e[3][2]), lit, 1>> :
             e \in {d \in up : /\ has_literal(d[1].s, d[3][1], d[3][2])
                               /\ succ_value(d[1].s, d[3][1], d[3][2]) # None}}
        \cup
        {<<[e[1] EXCEPT !.s = tighten_lower(e[1].s, e[3][1], e[3][2] + 1)], e[3][1],
           prev_value(e[1].s, e[3][1], e[3][2]), lit, -1>> :
             e \in {d \in lo : /\ has_literal(d[1].s, d[3][1], d[3][2])
                               /\ prev_value(d[1].s, d[3][1], d[3][2]) # None}}

VariableEntries ==
    UNION {IF is_true(e[1].h, e[2]) THEN VariableCalls(e[1], e[2], 0, 0) ELSE {}
           : e \in AllDomainEntries}
    \cup
    UNION {IF W.s.facts_integrated # _num_facts(W.s) /\ W.h.dl = 0
           THEN VariableCalls(W, TRUE_LIT, W.s.facts_integrated[1], W.s.facts_integrated[2])
           ELSE {} : W \in Rounds}

\* The reason lit is fixed and the literal that is to become true is not.
Simplifies(W, var, v, lit, sign) ==
    is_fixed(W.h, lit) /\ ~ is_fixed(W.h, sign * W.s.literals[var][v])

\* _propagate_variable for the literal of (var, v): under Simplifies the
\* literal is replaced by the constant and a unit clause fixes the old one;
\* otherwise it stays, and the clause [-lit, con] is added unless con is
\* true.
VariableContract(W, var, v, lit, sign) ==
    LET W1    == propagate_variable(W, var, v, lit, sign)
        old   == W.s.literals[var][v]
        con   == sign * old
        const == IF sign > 0 THEN TRUE_LIT ELSE 0 - TRUE_LIT
    IN  W1.err = "" =>
          IF Simplifies(W, var, v, lit, sign)
          THEN /\ W1.s.literals[var][v] = const
               /\ InSeq(W1.s.litmap[const], <<var, v>>)
               /\ ~ InSeq(W1.s.litmap[old], <<var, v>>)
               /\ Len(W1.h.added) = Len(W.h.added) + 1
               /\ Last(W1.h.added).clause = <<con>>
          ELSE /\ W1.s.literals = W.s.literals
               /\ W1.s.litmap = W.s.litmap
               /\ IF is_true(W.h, con) THEN W1.h.added = W.h.added
                  ELSE /\ Len(W1.h.added) = Len(W.h.added) + 1
                       /\ Last(W1.h.added).clause = <<0 - lit, con>>

\* C32: in _propagate_variable, when the reason literal is fixed and the
\* neighbouring order literal is not, the neighbour is replaced by the
\* constant literal and a unit clause fixing the old literal is added; in
\* all other cases where the derived literal is not true already the clause
\* [-lit, derived] is added.
C32_FactSimplification ==
    \A e \in VariableEntries : VariableContract(e[1], e[2], e[3], e[4], e[5])

\* A fact is about to be integrated, and the next larger value of its
\* variable has an order literal that is not fixed: the literal is
\* replaced by the true literal.
C32_Witness ==
    \E e \in VariableEntries :
        /\ e[5] = 1
        /\ Simplifies(e[1], e[2], e[3], e[4], e[5])
        /\ propagate_variable(e[1], e[2], e[3], e[4], e[5]).err = ""
        /\ propagate_variable(e[1], e[2], e[3], e[4], e[5]).s.literals[e[2]][e[3]] = TRUE_LIT

\* ---------------------------------------------------------------------
\* The calls of State.check.
\* ---------------------------------------------------------------------

RECURSIVE SimplifyChecks(_)
\* The worlds in which State.simplify calls State.check.
SimplifyChecks(W) ==
    LET W1  == cc_propagate(W)
        off == Len(W1.h.trail)
        W2  == propagate(W1, Slice(W1.h.trail, W1.s.trail_offset))
        Wc  == [W2 EXCEPT !.s.trail_offset = off]
        W3  == check(Wc)
    IN  IF ~ W1.ok \/ (W1.s.trail_offset = off /\ W1.s.todo = <<>>) \/ ~ W2.ok THEN {}
        ELSE {Wc} \cup (IF W3.ok THEN SimplifyChecks(W3) ELSE {})

\* The worlds in which Propagator.check or Propagator.init, called in the
\* current state, call State.check.
CheckCalls ==
    IF err = "" /\ host.mode = "control" /\ ~ host.conflict
       /\ host.queue = <<>> /\ ~ host.fix
    THEN {check_minimize(World(state, host))}
    ELSE IF err = "" /\ host.mode = "init" /\ ~ host.conflict
            /\ step < Len(Programs[prog])
    THEN LET Wb == init_builder(World(state, host), Programs[prog][step + 1])
         IN  IF Wb.err # "" \/ ~ Wb.ok THEN {} ELSE SimplifyChecks(Wb)
    ELSE {}

\* The same for Propagator.check called for a thread of the solver.
ThreadCheckCalls ==
    UNION {IF err = "" /\ threads[i].h.mode = "control" /\ ~ threads[i].h.conflict
              /\ threads[i].h.queue = <<>> /\ ~ threads[i].h.fix
           THEN {check_minimize(World(ThreadState(i), threads[i].h))}
           ELSE {} : i \in DOMAIN threads}

\* check runs its loop on the level of the top frame.
RunsLoop(W) == W.err = "" /\ W.h.dl = level(W.s).level

\* What State.check leaves behind when it returns true.
Settled(s) ==
    /\ s.todo = <<>>
    /\ s.udiff = <<>>
    /\ s.ldiff = <<>>
    /\ s.facts_integrated = _num_facts(s)

CheckContract(W) ==
    LET W1 == check(W)
    IN  /\ W1.err # "check:facts_above_level_0"
        /\ (RunsLoop(W) /\ W1.err = "" /\ W1.ok) => Settled(W1.s)

\* C33: when State.check has run its loop on the level of the top frame and
\* returns true, todo, _udiff and _ldiff are empty and _facts_integrated
\* equals _num_facts; facts that are not integrated are met on decision
\* level 0 only.
C33_CheckPostcondition ==
    /\ \A W \in CheckCalls : CheckContract(W)
    /\ \A W \in ThreadCheckCalls : CheckContract(W)

\* check starts with facts that are not integrated, pending bound changes
\* or constraints to propagate, goes through its loop more than once and
\* returns true.
C33_Witness ==
    \E W \in CheckCalls :
        /\ RunsLoop(W)
        /\ W.s.facts_integrated # _num_facts(W.s)
        /\ check(W).ok /\ check(W).err = ""
        /\ LET W1 == integrate_facts(W)
               W4 == update_bounds_of_constraints(W1)
               W5 == check_todo([W4 EXCEPT !.s.todo = <<>>], W4.s.todo)
           IN  /\ W1.s.udiff # <<>> \/ W1.s.ldiff # <<>>
               /\ W4.s.todo # <<>>
               /\ W5.s.facts_integrated # _num_facts(W5.s)

\* ---------------------------------------------------------------------
\* The calls of State.check_full.
\* ---------------------------------------------------------------------

\* The world in which Propagator.check, called in W, calls check_full.
FullCalls(W) ==
    LET W1 == check(check_minimize(W))
    IN  IF W1.err = "" /\ W1.ok /\ Cardinality(W.h.used) = Cardinality(W1.h.used)
           /\ is_total(W1.h)
        THEN {W1} ELSE {}

FullEntries ==
    (IF err = "" /\ host.mode = "control" /\ ~ host.conflict
        /\ host.queue = <<>> /\ ~ host.fix
     THEN FullCalls(World(state, host)) ELSE {})
    \cup
    UNION {IF err = "" /\ threads[i].h.mode = "control" /\ ~ threads[i].h.conflict
              /\ threads[i].h.queue = <<>> /\ ~ threads[i].h.fix
           THEN FullCalls(World(ThreadState(i), threads[i].h))
           ELSE {} : i \in DOMAIN threads}

\* The 0-based index of the variable that is d places after the index
\* visited last, going around.
Around(s, d) == (s.lerp_last + d) % Len(s.vars)

\* The distances d at which a variable with lb < ub is found.
OpenAt(s) ==
    {d \in 0..(Len(s.vars) - 1) :
        lower_bound(s, s.vars[Around(s, d) + 1]) < upper_bound(s, s.vars[Around(s, d) + 1])}

\* Whether m is lb + floor((ub - lb)/2).
IsMiddle(m, lb, ub) == 2 * (m - lb) <= ub - lb /\ ub - lb < 2 * (m - lb) + 2

\* check_full in W: the first open variable going around from lerp_last
\* gets the literal of the middle value and its index is remembered; bounds
\* and the literals of the other variables stay; without an open variable
\* the state and the variables of the solver stay.
FullContract(W) ==
    LET W1 == check_full(W)
    IN  IF OpenAt(W.s) = {}
        THEN (W1.err = "" => W1.s = W.s) /\ W1.h.used = W.h.used /\ W1.h.added = W.h.added
        ELSE LET d   == CHOOSE a \in OpenAt(W.s) : \A b \in OpenAt(W.s) : a <= b
                 var == W.s.vars[Around(W.s, d) + 1]
             IN  /\ W1.err = ""
                 /\ W1.s.lerp_last = Around(W.s, d)
                 /\ \E m \in DOMAIN W1.s.literals[var] :
                      /\ IsMiddle(m, lower_bound(W.s, var), upper_bound(W.s, var))
                      /\ W1.lit = W1.s.literals[var][m]
                      /\ \A k \in DOMAIN W1.s.literals[var] :
                           k # m => /\ k \in DOMAIN W.s.literals[var]
                                    /\ W1.s.literals[var][k] = W.s.literals[var][k]
                 /\ \A u \in Vars \ {var} : W1.s.literals[u] = W.s.literals[u]
                 /\ W1.s.lower = W.s.lower /\ W1.s.upper = W.s.upper
                 /\ Cardinality(W1.h.used) <= Cardinality(W.h.used) + 1

\* C34: check_full scans the variables circularly from the index visited
\* last; for the first one with lb < ub it requests the order literal of
\* lb + floor((ub - lb)/2), remembers the index and touches no other
\* variable; when every variable is assigned it allocates nothing.
C34_BranchingChoice == \A W \in FullEntries : FullContract(W)

\* check_full passes over an open variable before the index visited last,
\* and allocates a literal for the variable at that index.
C34_Witness ==
    \E W \in FullEntries :
        /\ W.s.lerp_last > 0
        /\ \A u \in 1..Len(W.s.vars) : ~ is_assigned(W.s, W.s.vars[u])
        /\ check_full(W).h.used # W.h.used
        /\ check_full(W).s.lerp_last = W.s.lerp_last

\* ---------------------------------------------------------------------
\* The calls of State.undo.
\* ---------------------------------------------------------------------

\* The worlds in which Propagator.undo, called in the current state for the
\* master or for another thread, calls State.undo.
UndoEntries ==
    (IF err = "" /\ host.mode = "control" /\ host.dl > 0 /\ level(state).level = host.dl
     THEN {World(state, host)} ELSE {})
    \cup
    UNION {IF err = "" /\ threads[i].h.mode = "control" /\ threads[i].h.dl > 0
              /\ level(ThreadState(i)).level = threads[i].h.dl
           THEN {World(ThreadState(i), threads[i].h)}
           ELSE {} : i \in DOMAIN threads}

RECURSIVE EntriesOf(_, _)
\* The entries (co, cs) of the list removed that belong to var, in order.
EntriesOf(removed, var) ==
    IF removed = <<>> THEN <<>>
    ELSE (IF Head(removed)[1] = var THEN << <<Head(removed)[2], Head(removed)[3]>> >>
          ELSE <<>>) \o EntriesOf(Tail(removed), var)

\* State.undo in W: one frame less; the marks of the constraints of the
\* frame are cleared and no other mark changes; v2cs gets back the entries
\* of the frame and nothing else; todo and the diffs are empty; only the
\* bound stacks of the variables in the undo lists change, by one element;
\* literals and litmap stay.
UndoContract(W) ==
    LET W1  == undo(W)
        lvl == level(W.s)
    IN  W1.err = "" =>
          /\ W1.s.levels = Front(W.s.levels)
          /\ DOMAIN W1.s.cstate = DOMAIN W.s.cstate
          /\ \A c \in DOMAIN W.s.cstate :
               W1.s.cstate[c].inactive_level =
                 IF InSeq(lvl.inactive, c) THEN 0 ELSE W.s.cstate[c].inactive_level
          /\ \A var \in Vars :
               W1.s.v2cs[var] = W.s.v2cs[var] \o EntriesOf(lvl.removed_v2cs, var)
          /\ W1.s.todo = <<>> /\ W1.s.udiff = <<>> /\ W1.s.ldiff = <<>>
          /\ \A var \in Vars :
               /\ W1.s.lower[var] = IF InSeq(lvl.undo_lower, var) THEN Front(W.s.lower[var])
                                    ELSE W.s.lower[var]
               /\ W1.s.upper[var] = IF InSeq(lvl.undo_upper, var) THEN Front(W.s.upper[var])
                                    ELSE W.s.upper[var]
          /\ W1.s.literals = W.s.literals
          /\ W1.s.litmap = W.s.litmap

\* C35: undo pops exactly one frame, clears the inactive mark of exactly the
\* constraints the frame records, re-adds exactly the entries detached in
\* that frame to v2cs, empties todo and both diff tables, and leaves the
\* bounds of the variables outside the frame's undo lists and the literal
\* maps unchanged.
C35_UndoEffects == \A W \in UndoEntries : UndoContract(W)

\* undo of a frame that records an inactive constraint, detached entries
\* and a changed bound, with a variable whose bounds the frame left alone.
C35_Witness ==
    \E W \in UndoEntries :
        /\ undo(W).err = ""
        /\ level(W.s).inactive # <<>>
        /\ level(W.s).removed_v2cs # <<>>
        /\ level(W.s).undo_lower # <<>> \/ level(W.s).undo_upper # <<>>
        /\ \E var \in Vars : /\ InSeq(W.s.vars, var)
                             /\ ~ InSeq(level(W.s).undo_lower, var)
                             /\ ~ InSeq(level(W.s).undo_upper, var)

InitOrder ==
    /\ prog \in FirstOrderProgram..(FirstCopyProgram - 1)
    /\ state = State
    /\ host = Host
    /\ ret = TRUE
    /\ last = "new"
    /\ err = ""
    /\ step = 0
    /\ propagator = Propagator
    /\ threads = <<>>
    /\ AuxInit

\* Two solver threads optimise over programs whose constraints are
\* translated.
SpecOrder == InitOrder /\ [][NextThreads]_vars

\* ---------------------------------------------------------------------
\* The stages of Propagator.init.
\* ---------------------------------------------------------------------

\* Propagator.init is about to be called in the current state.
InitCalled ==
    err = "" /\ host.mode = "init" /\ ~ host.conflict /\ step < Len(Programs[prog])

\* The worlds after remove_minimize, after the builder, after simplify,
\* before and after
\* the translation loop, after add_minimize and at the end of
\* Propagator.init; a stage that is not reached repeats the last one.
InitStages ==
    LET W   == World(state, host)
        Wr  == remove_minimize(W)
        Wb  == init_builder(W, Programs[prog][step + 1])
        W3  == IF Wb.err = "" /\ Wb.ok THEN simplify(Wb) ELSE Wb
        W4  == IF W3.err = "" /\ W3.ok THEN cleanup_literals(W3) ELSE W3
        W5  == IF W4.err = "" /\ W4.ok
               THEN translate_all(W4, SortedSeq({l \in Lits : W4.s.l2c[l] # <<>>}))
               ELSE W4
        W6  == IF W5.err = "" /\ W5.ok /\ W5.p.builder # 0
               THEN add_minimize(W5, W5.p.builder) ELSE W5
        Wf  == Propagator_init(W, Programs[prog][step + 1], number_of_threads(prog))
    IN  [removed |-> Wr, built |-> Wb, simplified |-> W3, before |-> W4, after |-> W5,
         added |-> W6,
         final |-> Wf,
         translating |-> W4.err = "" /\ W4.ok /\ Wb.err = "" /\ Wb.ok /\ W3.err = "" /\ W3.ok,
         adding |-> W5.err = "" /\ W5.ok /\ W5.p.builder # 0]

\* Constraint c is in none of the lookup tables of s.
Unknown(s, c) ==
    /\ c \notin DOMAIN s.cstate
    /\ \A l \in Lits : ~ InSeq(s.l2c[l], c)
    /\ \A var \in Vars : \A i \in 1..Len(s.v2cs[var]) : s.v2cs[var][i][2] # c

MinimizeIds == {c \in DOMAIN Cons : Cons[c].kind = "minimize"}

InitOrderContract ==
    LET st == InitStages
    IN  /\ \* removed before parsing
           /\ ~ has_minimize(st.removed.p)
           /\ st.removed.err = "" => \A c \in MinimizeIds : Unknown(st.removed.s, c)
           /\ st.built.err = "" => \A c \in MinimizeIds : Unknown(st.built.s, c)
        /\ st.translating =>
             /\ \* the translation loop meets no minimize constraint
                \A c \in MinimizeIds : Unknown(st.before.s, c)
             /\ st.after.err = "" =>
                  /\ \A c \in MinimizeIds : Unknown(st.after.s, c)
                  /\ ~ has_minimize(st.after.p)
                  /\ \* what translation removed is unknown to the master
                     \A c \in (DOMAIN st.before.s.cstate) \ (DOMAIN st.after.s.cstate) :
                        Unknown(st.after.s, c)
                  /\ \A l \in Lits : \A i \in 1..Len(st.after.s.l2c[l]) :
                        st.after.s.l2c[l][i] \in DOMAIN st.after.s.cstate
        /\ (st.adding /\ st.added.err = "") =>
             /\ st.added.p.minimize = st.after.p.builder
             /\ st.added.p.minimize \in DOMAIN st.added.s.cstate
             /\ st.added.t = st.after.t
             /\ \* translate leaves a minimize constraint alone
                LET Wt == translate(st.added, st.added.p.minimize)
                IN  Wt.num = 0 /\ Wt.h.wcs = st.added.h.wcs /\ Wt.s = st.added.s
             /\ st.final.err = "" =>
                  /\ st.final.s = st.added.s
                  /\ \A i \in DOMAIN st.final.t :
                       st.final.p.minimize \in DOMAIN st.final.t[i].s.cstate

\* C36: in every call of Propagator.init the minimize constraint is removed
\* before the theory atoms are parsed, is not translated to a weight
\* constraint, and is added to the master after the translation loop and
\* before the master is copied to the other threads; a constraint that
\* translation removed is in none of l2c, v2cs and the constraint states of
\* the master.
C36_InitOrder == InitCalled => InitOrderContract

\* A later init call with a minimize constraint in place and two threads:
\* translation removes a sum constraint in favour of a weight constraint,
\* then the minimize constraint is added and the master is copied.
C36_Witness ==
    /\ InitCalled /\ step > 0
    /\ has_minimize(propagator)
    /\ LET st == InitStages
       IN  /\ st.translating /\ st.adding
           /\ st.final.err = "" /\ st.final.ok
           /\ (DOMAIN st.before.s.cstate) \ (DOMAIN st.after.s.cstate) # {}
           /\ st.after.h.wcs # st.before.h.wcs
           /\ st.final.t # <<>>

\* ---------------------------------------------------------------------
\* The calls of State.cleanup_literals.
\* ---------------------------------------------------------------------

\* The worlds in which Propagator.init, called in the current state, calls
\* cleanup_literals.
CleanupEntries ==
    IF InitCalled
    THEN LET st == InitStages
         IN  IF st.built.err = "" /\ st.built.ok
                /\ st.simplified.err = "" /\ st.simplified.ok
             THEN {st.simplified} ELSE {}
    ELSE {}

\* The order literals of the litmap that are no constants.
OrderKeys(s) == {l \in Lits : s.litmap[l] # <<>> /\ Abs(l) # TRUE_LIT}

\* Every pair under the true literal is the upper bound of its variable and
\* every pair under the false literal is the value below the lower bound.
FactsAreBounds(s) ==
    /\ \A i \in 1..Len(s.litmap[TRUE_LIT]) :
         s.litmap[TRUE_LIT][i][2] = upper_bound(s, s.litmap[TRUE_LIT][i][1])
    /\ \A i \in 1..Len(s.litmap[0 - TRUE_LIT]) :
         s.litmap[0 - TRUE_LIT][i][2] = lower_bound(s, s.litmap[0 - TRUE_LIT][i][1]) - 1

CleanupContract(W) ==
    LET W1 == cleanup_literals(W)
    IN  (W1.err = "" /\ W1.ok) =>
          /\ \A l \in OrderKeys(W1.s) : ass_has_literal(W1.h, l) /\ ~ is_fixed(W1.h, l)
          /\ FactsAreBounds(W1.s)
          /\ \A l \in {TRUE_LIT, 0 - TRUE_LIT} :
               (W.s.litmap[l] # <<>> \/ update(W.s, W.h).litmap[l] # <<>>)
                  => W1.s.litmap[l] # <<>>
          /\ W1.s.facts_integrated[1] <= Len(W1.s.litmap[TRUE_LIT])
          /\ W1.s.facts_integrated[2] <= Len(W1.s.litmap[0 - TRUE_LIT])

\* C37: after cleanup_literals returns true, no literal of the litmap other
\* than the constants is fixed or unknown to the solver, every pair under
\* TRUE_LIT is the upper bound and every pair under -TRUE_LIT the lower
\* bound minus one of its variable, each constant literal that had pairs
\* still has one, and the numbers of integrated facts do not exceed the
\* numbers of pairs left.
C37_CleanupPostcondition == \A W \in CleanupEntries : CleanupContract(W)

\* cleanup_literals drops pairs of the true literal that are above the
\* upper bound, keeps one, and lowers the number of integrated facts.
C37_Witness ==
    \E W \in CleanupEntries :
        LET W1 == cleanup_literals(W)
        IN  /\ W1.err = "" /\ W1.ok
            /\ W1.s.litmap[TRUE_LIT] # <<>>
            /\ Len(W1.s.litmap[TRUE_LIT]) < Len(update(W.s, W.h).litmap[TRUE_LIT])
            /\ W1.s.facts_integrated[1] < W.s.facts_integrated[1]

InitAlias ==
    /\ prog \in FirstAliasProgram..(FirstWideProgram - 1)
    /\ state = State
    /\ host = Host
    /\ ret = TRUE
    /\ last = "new"
    /\ err = ""
    /\ step = 0
    /\ propagator = Propagator
    /\ threads = <<>>
    /\ AuxInit

\* Multi-shot solving of programs whose atoms serve as order literals.
SpecAlias == InitAlias /\ [][Next]_vars

\* ---------------------------------------------------------------------
\* The calls of State.update_literal that retire a literal.
\* ---------------------------------------------------------------------

RECURSIVE ParseWorlds(_, _)
\* The pairs <<W, c>> of a world and a theory atom for which the builder
\* handles c in W.
ParseWorlds(W, stmts) ==
    IF stmts = <<>> \/ W.err # "" THEN {}
    ELSE {<<W, Head(stmts)>>} \cup ParseWorlds(parse_theory(W, <<Head(stmts)>>), Tail(stmts))

\* The same for Propagator.init called in the current state.
ParseEntries ==
    IF InitCalled
    THEN LET W0 == remove_minimize(World(state, host))
         IN  IF W0.err # "" THEN {}
             ELSE ParseWorlds([W0 EXCEPT !.s = update(W0.s, W0.h),
                                         !.t = [i \in DOMAIN W0.t |->
                                                   [W0.t[i] EXCEPT !.s = update(W0.t[i].s, W0.h)]],
                                         !.h.mode = "builder", !.h.fresh = {},
                                         !.ok = TRUE],
                              Programs[prog][step + 1])
    ELSE {}

\* The value of the order literal integrate_simple uses for constraint c.
IntegratedValue(s, c) ==
    LET co == Cons[c].elements[1][1]
    IN  IF co > 0 THEN FloorDiv(rhs_of(s, c), co)
        ELSE 0 - FloorDiv(rhs_of(s, c), 0 - co) - 1

\* The calls <<W, var, v, truth>> of update_literal by integrate_simple and
\* by _propagate_variable.
UpdateEntries ==
    {<<[e[1] EXCEPT !.s = add_variable(e[1].s, Cons[e[2]].elements[1][2])],
       Cons[e[2]].elements[1][2],
       IntegratedValue(e[1].s, e[2]),
       IF Cons[e[2]].elements[1][1] > 0 THEN value(e[1].h, Cons[e[2]].literal)
       ELSE value(e[1].h, 0 - Cons[e[2]].literal)>> :
         e \in {d \in ParseEntries :
                  /\ Cons[d[2]].kind = "sum" /\ Len(Cons[d[2]].elements) = 1
                  /\ ~ (~ Cons[d[2]].strict /\ is_false(d[1].h, Cons[d[2]].literal))
                  /\ LET s1  == add_variable(d[1].s, Cons[d[2]].elements[1][2])
                         var == Cons[d[2]].elements[1][2]
                         val == IntegratedValue(d[1].s, d[2])
                     IN  ~ (/\ Cons[d[2]].strict
                            /\ min_bound(s1, var) <= val /\ val < max_bound(s1, var)
                            /\ ~ has_literal(s1, var, val))}}
    \cup
    {<<e[1], e[2], e[3], e[5]>> :
         e \in {d \in VariableEntries : Simplifies(d[1], d[2], d[3], d[4], d[5])}}

\* update_literal(var, v, truth) in W replaces a literal that is no
\* constant and has no other pair.
RetiresLast(W, var, v, truth) ==
    /\ truth # 0 /\ W.h.dl = 0
    /\ min_bound(W.s, var) <= v /\ v < max_bound(W.s, var)
    /\ has_literal(W.s, var, v)
    /\ Abs(W.s.literals[var][v]) # TRUE_LIT
    /\ W.s.litmap[W.s.literals[var][v]] = << <<var, v>> >>

\* The assertion of _remove_literal holds.
AssertionHolds(W, var, v, truth) ==
    update_literal(W, var, v, truth).err # "remove_literal:negation_in_litmap"

\* The key of the literal is deleted.
KeyDeleted(W, var, v, truth) ==
    LET W1 == update_literal(W, var, v, truth)
    IN  W1.err = "" => W1.s.litmap[W.s.literals[var][v]] = <<>>

\* The solver no longer watches the literal.
WatchesDropped(W, var, v, truth) ==
    LET W1 == update_literal(W, var, v, truth)
    IN  W1.err = "" => /\ W.s.literals[var][v] \notin W1.h.watches
                       /\ 0 - W.s.literals[var][v] \notin W1.h.watches

\* C38: when update_literal removes the last pair of a literal that is no
\* constant, the key of the literal is deleted from litmap, the solver is
\* asked to drop its watches, and the negated literal is no key of litmap
\* (the assertion of _remove_literal holds), also when atoms of strict
\* singleton constraints are order literals in both polarities.
C38_Retirement ==
    \A e \in UpdateEntries :
        RetiresLast(e[1], e[2], e[3], e[4]) =>
            /\ AssertionHolds(e[1], e[2], e[3], e[4])
            /\ KeyDeleted(e[1], e[2], e[3], e[4])
            /\ WatchesDropped(e[1], e[2], e[3], e[4])

\* The part of C38 about the key alone.
C38_KeyDeleted ==
    \A e \in UpdateEntries :
        RetiresLast(e[1], e[2], e[3], e[4]) => KeyDeleted(e[1], e[2], e[3], e[4])

\* The part of C38 about the assertion alone.
C38_AssertionHolds ==
    \A e \in UpdateEntries :
        RetiresLast(e[1], e[2], e[3], e[4]) => AssertionHolds(e[1], e[2], e[3], e[4])

\* The part of C38 about the watches alone.
C38_WatchesDropped ==
    \A e \in UpdateEntries :
        RetiresLast(e[1], e[2], e[3], e[4]) => WatchesDropped(e[1], e[2], e[3], e[4])

\* ---------------------------------------------------------------------
\* litmap and the literals of the variables.
\* ---------------------------------------------------------------------

\* A pair is listed under l in litmap iff l is the literal of the pair, and
\* no list holds a pair twice.
IndexAgrees(s) ==
    /\ \A l \in Lits : \A i \in 1..Len(s.litmap[l]) :
         /\ has_literal(s, s.litmap[l][i][1], s.litmap[l][i][2])
         /\ s.literals[s.litmap[l][i][1]][s.litmap[l][i][2]] = l
         /\ \A j \in 1..Len(s.litmap[l]) : s.litmap[l][j] = s.litmap[l][i] => j = i
    /\ \A var \in Vars : \A v \in DOMAIN s.literals[var] :
         /\ s.literals[var][v] \in Lits
         /\ InSeq(s.litmap[s.literals[var][v]], <<var, v>>)

\* No call has reported a conflict or failed.
NoConflict == err = "" /\ ret /\ ~ host.conflict

\* C39: in every reachable state of a thread in which no conflict was
\* reported, a pair (vs, value) is listed under literal l in litmap iff
\* vs.literals[value] = l, under exactly one literal and at most once.
C39_IndexAgreement ==
    NoConflict =>
        /\ IndexAgrees(state)
        /\ \A i \in DOMAIN threads : IndexAgrees(ThreadState(i))

\* The same, conflict or not.
C39_AlwaysAgrees ==
    err = "" =>
        /\ IndexAgrees(state)
        /\ \A i \in DOMAIN threads : IndexAgrees(ThreadState(i))

\* A second init call has updated and cleaned the litmap of the master and
\* copied it to the other thread: both hold the same pairs, under a
\* constant and under other literals.
C39_Witness ==
    /\ NoConflict /\ step = 2 /\ threads # <<>>
    /\ last = "init"
    /\ state.litmap[TRUE_LIT] # <<>>
    /\ \E l \in Lits : Abs(l) # TRUE_LIT /\ state.litmap[l] # <<>>
    /\ ThreadState(1).litmap = state.litmap
    /\ ThreadState(1).literals = state.literals

\* ---------------------------------------------------------------------
\* The cache of DistinctState.
\* ---------------------------------------------------------------------

\* How often x occurs in sq.
Occurrences(sq, x) == Cardinality({n \in 1..Len(sq) : sq[n] = x})

\* The lower and the upper value of term e of the distinct constraint c
\* under the bounds of s, as DistinctState.init computes them.
TermBounds(s, c, e) ==
    << Cons[c].elements[e][1] + SumTerms(Cons[c].elements[e][2], LowerOf(s), UpperOf(s)),
       Cons[c].elements[e][1] + SumTerms(Cons[c].elements[e][2], UpperOf(s), LowerOf(s)) >>

\* The cache ds of constraint c agrees with the bounds of s for term e.
TermAgrees(s, ds, c, e) ==
    /\ e \in DOMAIN ds.assigned
    /\ ds.assigned[e] = TermBounds(s, c, e)
    /\ Occurrences(ds.map_lower[TermBounds(s, c, e)[1]], e) = 1
    /\ Occurrences(ds.map_upper[TermBounds(s, c, e)[2]], e) = 1

CacheAgrees(s, ds, c) == \A e \in 1..Len(Cons[c].elements) : TermAgrees(s, ds, c, e)

\* The loop over todo calls DistinctState.propagate.
EntersDistinct(W, c) == ~ is_false(W.h, Cons[c].literal) /\ Cons[c].kind = "distinct"

DistinctEntries == {e \in TodoSteps : EntersDistinct(e[1], e[2])}

ThreadDistinctEntries == {e \in ThreadSteps : EntersDistinct(e[1], e[2])}

\* The cache of c in world W after _update.
Updated(W, c) == ds_update_dirty(W.s, W.s.cstate[c], c, W.s.cstate[c].dirty)

\* C40: whenever DistinctState.propagate has run _update, the cached pair
\* of every term equals its lower and upper value under the current bounds
\* of the variables, and the term occurs exactly once in the lists of these
\* two values; in the State of thread 0, also after undo, and in the States
\* that copy_state made for the other threads.
C40_CacheAgreement ==
    \A e \in DistinctEntries \cup ThreadDistinctEntries :
        CacheAgrees(e[1].s, Updated(e[1], e[2]), e[2])

\* The same for the State of thread 0 alone.
C40_OwnCache ==
    \A e \in DistinctEntries : CacheAgrees(e[1].s, Updated(e[1], e[2]), e[2])

InitCopy ==
    /\ prog \in FirstCopyProgram..(FirstFactProgram - 1)
    /\ state = State
    /\ host = Host
    /\ ret = TRUE
    /\ last = "new"
    /\ err = ""
    /\ step = 0
    /\ propagator = Propagator
    /\ threads = <<>>
    /\ AuxInit

\* One schedule of the two threads: thread 0 searches in the first solve
\* call while the other thread idles, and the other thread searches, up to
\* its first decision, in the second.
NextCopy ==
    \/ PInit \/ EndStep
    \/ (step = 1 /\ Propagate) \/ (step = 1 /\ Check)
    \/ (step = 1 /\ Decide) \/ (step = 1 /\ Undo)
    \/ (step = 2 /\ ThreadPropagate) \/ (step = 2 /\ ThreadCheck)
    \/ (step = 2 /\ threads[1].h.dl = 0 /\ ThreadDecide) \/ (step = 2 /\ ThreadUndo)

\* Multi-shot solving with two threads of a program with a distinct
\* constraint.
SpecCopy == InitCopy /\ [][NextCopy]_vars

====
